---- MODULE Spec2Model ----
(***************************************************************************)
(* Tournament capacity and fixture generation engine of the tournament     *)
(* planner backend (internal/services/tournament_service.go), and the      *)
(* score reporting of internal/services/match_service.go.                  *)
(*                                                                         *)
(* Eight specifications share the variables below:                         *)
(*   SpecCapacity  the capacity calculator applied to a drawn request      *)
(*   SpecCreate    TournamentService.Create against the stored tables      *)
(*   SpecFixtures  the fixture generators applied to a seeded list         *)
(*   SpecSeeding   applySeedingMethod and the generator on its result      *)
(*   SpecGenerate  concurrent GenerateFixtures calls for one tournament    *)
(*   SpecBracket   createBracketPositions, one call frame at a time        *)
(*   SpecDeterminism  the capacity calculator run again on one request     *)
(*   SpecReport    StartMatch and ReportScore on a stored bracket          *)
(***************************************************************************)
EXTENDS Integers, Sequences, FiniteSets, TLC

VARIABLES
    req,              \* CreateTournamentRequest under calculation
    calc,             \* locals of calculateTournamentCapacity once it has run
    tournaments,      \* rows of table tournaments
    venues,           \* rows of table venues
    lastCreate,       \* what the last Create call computed and returned
    creates,          \* number of Create calls so far
    uuid,             \* number of UUIDs handed out so far
    format,           \* tournament.FormatType of the fixture run
    participants,     \* the participant list handed to the generator
    fixtures,         \* the generated []*models.Match
    bracketPositions, \* bracketPositions local of the single-elimination run
    phase,            \* position of the fixture run
    seedingMethod,    \* method argument of applySeedingMethod
    seedingData,      \* data argument of applySeedingMethod
    seededParticipants, \* the list applySeedingMethod returned
    matchTable,       \* committed rows of table matches
    calls,            \* locals and position of each GenerateFixtures call
    rowLocks,         \* calls whose transaction holds a lock on the tournament row
    bracket,          \* the running createBracketPositions call
    runs,             \* capacities returned by the runs on one request
    participantStats, \* total_matches_played and _won of table participants
    lastReport        \* what the last ReportScore call read and returned

capVars == <<req, calc>>
dbVars == <<tournaments, venues, lastCreate, creates, uuid>>
fixVars == <<format, participants, fixtures, bracketPositions, phase>>
seedVars == <<seedingMethod, seedingData, seededParticipants>>
genVars == <<matchTable, calls, rowLocks>>
reportVars == <<participantStats, lastReport>>
vars == <<req, calc, tournaments, venues, lastCreate, creates, uuid,
          format, participants, fixtures, bracketPositions, phase,
          seedingMethod, seedingData, seededParticipants, matchTable, calls, rowLocks, bracket,
          runs, participantStats, lastReport>>

(***************************************************************************)
(* Bounds of the model.                                                    *)
(***************************************************************************)
MaxPerDay == 5
MaxVenues == 3
MaxSpanDays == 2
MaxParticipants == 16
MaxCreates == 2

(***************************************************************************)
(* Small helpers.                                                          *)
(***************************************************************************)
RECURSIVE Pow2(_)
Pow2(k) == IF k <= 0 THEN 1 ELSE 2 * Pow2(k - 1)

Range(s) == {s[i] : i \in DOMAIN s}

(***************************************************************************)
(* models.TournamentFormat                                                 *)
(***************************************************************************)
FormatSingleElimination == "single_elimination"
FormatDoubleElimination == "double_elimination"
FormatRoundRobin == "round_robin"
FormatSwiss == "swiss"
FormatGroupToKnockout == "group_to_knockout"

StatusDraft == "draft"
MatchPending == "pending"

\* a nil pointer to a string or an int
Nil == 0

\* a nil pointer to a struct, and a record not yet computed
NilRec == [nil |-> TRUE]

(***************************************************************************)
(* IEEE-754 binary64 arithmetic, as far as the calculator uses it.         *)
(* A positive value is [m, e]: m is the 53-bit significand, most           *)
(* significant bit first, and the value is m * 2^e.  Zero is F64Zero.      *)
(***************************************************************************)
MantissaBits == 53

F64Zero == [m |-> <<>>, e |-> 0]

\* the integer a bit sequence denotes (short sequences only)
RECURSIVE BitsToNat(_)
BitsToNat(bs) ==
    IF bs = <<>> THEN 0
    ELSE 2 * BitsToNat(SubSeq(bs, 1, Len(bs) - 1)) + bs[Len(bs)]

\* minimal binary representation of n > 0, most significant bit first
RECURSIVE NatToBits(_)
NatToBits(n) ==
    IF n = 0 THEN <<>> ELSE Append(NatToBits(n \div 2), n % 2)

\* bs + 1, with one more leading bit when the carry runs out
RECURSIVE IncBits(_)
IncBits(bs) ==
    IF bs = <<>> THEN <<1>>
    ELSE IF bs[Len(bs)] = 0
         THEN Append(SubSeq(bs, 1, Len(bs) - 1), 1)
         ELSE Append(IncBits(SubSeq(bs, 1, Len(bs) - 1)), 0)

\* c * bs for a small integer c: schoolbook multiplication from the low end;
\* bs[1..i] is still to do, acc holds the product bits below it
RECURSIVE MulBits(_, _, _, _, _)
MulBits(bs, c, i, carry, acc) ==
    IF i = 0 THEN NatToBits(carry) \o acc
    ELSE IF (c * bs[i] + carry) % 2 = 1
         THEN MulBits(bs, c, i - 1, (c * bs[i] + carry) \div 2, <<1>> \o acc)
         ELSE MulBits(bs, c, i - 1, (c * bs[i] + carry) \div 2, <<0>> \o acc)

\* round an exact value bs * 2^e (bs[1] = 1, Len(bs) >= 53) to 53 bits,
\* nearest, ties to even
F64Round(bs, e) ==
    LET drop == Len(bs) - MantissaBits
        keep == SubSeq(bs, 1, MantissaBits)
        rest == SubSeq(bs, MantissaBits + 1, Len(bs))
        half == drop > 0 /\ rest[1] = 1
        sticky == \E i \in 2..drop : rest[i] = 1
        up == half /\ (sticky \/ keep[MantissaBits] = 1)
        inc == IncBits(keep)
    IN IF ~up THEN [m |-> keep, e |-> e + drop]
       ELSE IF Len(inc) > MantissaBits
            THEN [m |-> SubSeq(inc, 1, MantissaBits), e |-> e + drop + 1]
            ELSE [m |-> inc, e |-> e + drop]

\* quotient digits of r/b by binary long division, until acc holds 53
\* bits; the remainder left decides the rounding
RECURSIVE DivBits(_, _, _)
DivBits(r, b, acc) ==
    IF Len(acc) = MantissaBits THEN [bits |-> acc, rem |-> r]
    ELSE IF 2 * r >= b
         THEN DivBits(2 * r - b, b, Append(acc, 1))
         ELSE DivBits(2 * r, b, Append(acc, 0))

\* least j with a * 2^j >= b
RECURSIVE ShiftUp(_, _)
ShiftUp(a, b) == IF a >= b THEN 0 ELSE 1 + ShiftUp(2 * a, b)

\* float64(a) / float64(b) for integers 0 <= a < b: the correctly rounded
\* quotient
F64DivInt(a, b) ==
    IF a = 0 THEN F64Zero
    ELSE LET j == ShiftUp(a, b)
             A == a * Pow2(j)
             q == DivBits(A - b, b, <<1>>)
             \* one guard bit and a sticky bit carry the remainder
             guard == IF 2 * q.rem >= b THEN 1 ELSE 0
             stick == IF 2 * q.rem - guard * b > 0 THEN 1 ELSE 0
         IN F64Round(q.bits \o <<guard, stick>>, -j - (MantissaBits - 1) - 2)

\* float64(c) * x for an integer c >= 0: the correctly rounded product
F64MulInt(c, x) ==
    IF c = 0 \/ x = F64Zero THEN F64Zero
    ELSE F64Round(MulBits(x.m, c, MantissaBits, 0, <<>>), x.e)

\* int(x): truncation toward zero
F64ToInt(x) ==
    IF x = F64Zero THEN 0
    ELSE IF x.e >= 0 THEN BitsToNat(x.m) * Pow2(x.e)
    ELSE IF MantissaBits + x.e <= 0 THEN 0
    ELSE BitsToNat(SubSeq(x.m, 1, MantissaBits + x.e))

\* int(math.Sqrt(x)): math.Sqrt is correctly rounded and x is far below
\* 2^52, so the integer part is that of the real square root
RECURSIVE FloorSqrtFrom(_, _)
FloorSqrtFrom(x, k) == IF (k + 1) * (k + 1) > x THEN k ELSE FloorSqrtFrom(x, k + 1)

FloorSqrt(x) == FloorSqrtFrom(x, 0)

(***************************************************************************)
(* Clock strings of models.DayHours, as sequences of characters.           *)
(***************************************************************************)
Digits == {"0", "1", "2", "3", "4", "5", "6", "7", "8", "9"}

DigitValue(c) ==
    CASE c = "0" -> 0 [] c = "1" -> 1 [] c = "2" -> 2 [] c = "3" -> 3
      [] c = "4" -> 4 [] c = "5" -> 5 [] c = "6" -> 6 [] c = "7" -> 7
      [] c = "8" -> 8 [] c = "9" -> 9

\* minutes from Jan 1 of year 0, 00:00 UTC, to the zero time.Time
\* (Jan 1 of year 1): year 0 has 366 days
ZeroTimeMinutes == 527040

\* time.Parse("15:04", s), as minutes since Jan 1 of year 0: one or two
\* digits of hour (two when the second character is a digit) below 24, a
\* colon, two digits of minute below 60 and nothing else; on any error the
\* result is the zero time.Time and the error is dropped
ParseClock(s) ==
    LET twoDigits == Len(s) >= 2 /\ s[1] \in Digits /\ s[2] \in Digits
        oneDigit == Len(s) >= 1 /\ s[1] \in Digits /\ ~twoDigits
        hour == IF twoDigits THEN 10 * DigitValue(s[1]) + DigitValue(s[2])
                ELSE DigitValue(s[1])
        rest == SubSeq(s, IF twoDigits THEN 3 ELSE 2, Len(s))
        wellFormed ==
            /\ oneDigit \/ twoDigits
            /\ Len(rest) = 3
            /\ rest[1] = ":"
            /\ rest[2] \in Digits
            /\ rest[3] \in Digits
        minute == 10 * DigitValue(rest[2]) + DigitValue(rest[3])
    IN IF wellFormed /\ hour < 24 /\ minute < 60
       THEN 60 * hour + minute
       ELSE ZeroTimeMinutes

\* the body of the loop of calculateDailyOperationalMinutes for one entry
DayMinutes(dayHours) == ParseClock(dayHours.EndTime) - ParseClock(dayHours.StartTime)

RECURSIVE SumDayMinutes(_, _)
SumDayMinutes(hours, keys) ==
    IF keys = {} THEN [totalMinutes |-> 0, daysCount |-> 0]
    ELSE LET k == CHOOSE x \in keys : TRUE
             rest == SumDayMinutes(hours, keys \ {k})
             dailyMinutes == DayMinutes(hours[k])
         IN IF dailyMinutes > 0
            THEN [totalMinutes |-> rest.totalMinutes + dailyMinutes,
                  daysCount |-> rest.daysCount + 1]
            ELSE rest

calculateDailyOperationalMinutes(hours) ==
    LET acc == SumDayMinutes(hours, DOMAIN hours)
    IN IF acc.daysCount = 0 THEN 0
       ELSE acc.totalMinutes \div acc.daysCount

\* dates are hours since an epoch; int(end.Sub(start).Hours()/24) + 1
calculateTournamentDays(start, end) == ((end - start) \div 24) + 1

(***************************************************************************)
(* calculateTournamentCapacity, with its locals kept in a record.          *)
(***************************************************************************)
GroupConfigured(r) ==
    /\ r.FormatConfig # NilRec
    /\ r.FormatConfig.GroupSize > 0
    /\ r.FormatConfig.NumberOfGroups > 0

\* the quadratic solve with the "1 +" of the root formula left out
RoundRobinCapacityNoOne(totalMatchSlots) ==
    LET discriminant == 1 + 8 * totalMatchSlots
        n == FloorSqrt(discriminant) \div 2
    IN IF (n * (n - 1)) \div 2 > totalMatchSlots THEN n - 1 ELSE n

\* lines 194-200: the quadratic solve and the overshoot guard
RoundRobinCapacity(totalMatchSlots) ==
    LET discriminant == 1 + 8 * totalMatchSlots
        n == (1 + FloorSqrt(discriminant)) \div 2
    IN IF (n * (n - 1)) \div 2 > totalMatchSlots THEN n - 1 ELSE n

\* lines 209-216
GroupTotalRequired(groupSize, numGroups) ==
    LET matchesPerGroup == (groupSize * (groupSize - 1)) \div 2
        groupStageMatches == numGroups * matchesPerGroup
        knockoutTeams == numGroups * 2
        knockoutMatches == knockoutTeams - 1
    IN groupStageMatches + knockoutMatches

\* lines 221-222: scaleFactor and the scaled capacity, in float64
ScaledCapacity(groupSize, numGroups, totalMatchSlots, totalRequired) ==
    LET scaleFactor == F64DivInt(totalMatchSlots, totalRequired)
    IN F64ToInt(F64MulInt(numGroups * groupSize, scaleFactor))

\* lines 204-227
GroupToKnockoutCapacity(r, totalMatchSlots) ==
    IF GroupConfigured(r)
    THEN LET groupSize == r.FormatConfig.GroupSize
             numGroups == r.FormatConfig.NumberOfGroups
             totalRequired == GroupTotalRequired(groupSize, numGroups)
         IN IF totalRequired <= totalMatchSlots
            THEN numGroups * groupSize
            ELSE ScaledCapacity(groupSize, numGroups, totalMatchSlots, totalRequired)
    ELSE totalMatchSlots \div 3

\* lines 231-236
SwissCapacity(r, totalMatchSlots) ==
    LET rounds == IF r.FormatConfig # NilRec /\ r.FormatConfig.NumberOfRounds > 0
                  THEN r.FormatConfig.NumberOfRounds
                  ELSE 5
    IN (totalMatchSlots * 2) \div rounds

\* the daily cap alone, the venue comparison left out
MoreRestrictiveDailyCapOnly(totalMatchSlots, totalVenueCapacity) == totalMatchSlots

\* lines 173-176: the more restrictive of the two constraints
MoreRestrictive(totalMatchSlots, totalVenueCapacity) ==
    IF totalVenueCapacity < totalMatchSlots THEN totalVenueCapacity ELSE totalMatchSlots

\* the switch with single elimination counting matches, not participants
FormatCapacityMatchCount(r, totalMatchSlots) ==
    CASE r.FormatType = FormatSingleElimination -> totalMatchSlots
      [] r.FormatType = FormatDoubleElimination -> (totalMatchSlots + 2) \div 2
      [] r.FormatType = FormatRoundRobin -> RoundRobinCapacity(totalMatchSlots)
      [] r.FormatType = FormatGroupToKnockout -> GroupToKnockoutCapacity(r, totalMatchSlots)
      [] r.FormatType = FormatSwiss -> SwissCapacity(r, totalMatchSlots)
      [] OTHER -> totalMatchSlots \div 3

\* the switch on req.FormatType
FormatCapacity(r, totalMatchSlots) ==
    CASE r.FormatType = FormatSingleElimination -> totalMatchSlots + 1
      [] r.FormatType = FormatDoubleElimination -> (totalMatchSlots + 2) \div 2
      [] r.FormatType = FormatRoundRobin -> RoundRobinCapacity(totalMatchSlots)
      [] r.FormatType = FormatGroupToKnockout -> GroupToKnockoutCapacity(r, totalMatchSlots)
      [] r.FormatType = FormatSwiss -> SwissCapacity(r, totalMatchSlots)
      [] OTHER -> totalMatchSlots \div 3

\* the body of calculateTournamentCapacity once dailyMinutes is known
CapacityLocalsFrom(r, dailyMinutes) ==
    LET days == calculateTournamentDays(r.StartDate, r.EndDate)
        byDailyCap == r.MaxMatchesPerDay * days
        matchesPerVenuePerDay == dailyMinutes \div (r.AvgMatchDuration + r.BufferTime)
        totalVenueCapacity == matchesPerVenuePerDay * Len(r.Venues) * days
        totalMatchSlots == MoreRestrictive(byDailyCap, totalVenueCapacity)
    IN [days |-> days,
        dailyMinutes |-> dailyMinutes,
        totalVenueCapacity |-> totalVenueCapacity,
        totalMatchSlots |-> totalMatchSlots,
        capacity |-> FormatCapacity(r, totalMatchSlots)]

CapacityLocals(r) ==
    CapacityLocalsFrom(r, calculateDailyOperationalMinutes(r.OperationalHours))

calculateTournamentCapacity(r) == CapacityLocals(r).capacity

(***************************************************************************)
(* The requests the calculator is applied to.                              *)
(***************************************************************************)
C0900 == <<"0", "9", ":", "0", "0">>
C1300 == <<"1", "3", ":", "0", "0">>
C1700 == <<"1", "7", ":", "0", "0">>
\* hour out of range: does not parse under the layout "15:04"
CBad == <<"2", "5", ":", "0", "0">>

DayHoursSet ==
    { [StartTime |-> C0900, EndTime |-> C1700],
      [StartTime |-> C0900, EndTime |-> C1300],
      [StartTime |-> C1700, EndTime |-> C0900],
      [StartTime |-> CBad, EndTime |-> C1700],
      [StartTime |-> C0900, EndTime |-> CBad] }

\* models.OperationalHours: a map from weekday to its window
OperationalHoursSet ==
    LET monOnly == {[d \in {"mon"} |-> h] : h \in DayHoursSet}
        tue == [StartTime |-> C0900, EndTime |-> C1300]
    IN {<<>>} \cup {[d \in {"tue"} |-> tue]} \cup monOnly
       \cup {[d \in {"mon", "tue"} |-> IF d = "mon" THEN h ELSE tue] : h \in DayHoursSet}

FormatSet ==
    {FormatSingleElimination, FormatDoubleElimination, FormatRoundRobin,
     FormatSwiss, FormatGroupToKnockout, "custom"}

FormatConfigSet ==
    { NilRec,
      [NumberOfGroups |-> 2, GroupSize |-> 3, NumberOfRounds |-> 0],
      [NumberOfGroups |-> 17, GroupSize |-> 11, NumberOfRounds |-> 0],
      [NumberOfGroups |-> 0, GroupSize |-> 3, NumberOfRounds |-> 3],
      [NumberOfGroups |-> 2, GroupSize |-> 0, NumberOfRounds |-> 3] }

\* binding min=1; 264 is a daily cap of a large multi-court event
PerDaySet == (1..MaxPerDay) \cup {264}

\* end_date after start_date, in steps of half a day
EndDateSet == {12 * k : k \in 0..(2 * MaxSpanDays)}

DurationSet == {<<30, 10>>, <<5, 0>>}

VenueList(k) == [i \in 1..k |-> [Name |-> i]]

Requests ==
    { [FormatType |-> f, FormatConfig |-> c, StartDate |-> 0, EndDate |-> e,
       MaxMatchesPerDay |-> m, OperationalHours |-> h,
       AvgMatchDuration |-> d[1], BufferTime |-> d[2], Venues |-> VenueList(v)] :
      f \in FormatSet, c \in FormatConfigSet, e \in EndDateSet, m \in PerDaySet,
      h \in OperationalHoursSet, d \in DurationSet, v \in 1..MaxVenues }

NoCalc == NilRec
NoCreate == NilRec

(***************************************************************************)
(* SpecCapacity: calculateTournamentCapacity applied to a drawn request.   *)
(***************************************************************************)
IdleDb ==
    /\ tournaments = {}
    /\ venues = {}
    /\ lastCreate = NoCreate
    /\ creates = 0
    /\ uuid = 0

IdleFixtures ==
    /\ format = "none"
    /\ participants = <<>>
    /\ fixtures = <<>>
    /\ bracketPositions = <<>>
    /\ phase = "idle"

IdleCapacity ==
    /\ req = NilRec
    /\ calc = NoCalc

IdleSeeding ==
    /\ seedingMethod = "none"
    /\ seedingData = <<>>
    /\ seededParticipants = NilRec

IdleGenerate ==
    /\ matchTable = {}
    /\ calls = <<>>
    /\ rowLocks = {}

IdleBracket == bracket = NilRec

IdleRuns == runs = <<>>

IdleReport ==
    /\ participantStats = <<>>
    /\ lastReport = NilRec

InitCapacity ==
    /\ req \in Requests
    /\ calc = NoCalc
    /\ IdleDb
    /\ IdleFixtures
    /\ IdleSeeding
    /\ IdleGenerate
    /\ IdleBracket
    /\ IdleRuns
    /\ IdleReport

Calculate ==
    /\ req # NilRec
    /\ calc = NoCalc
    /\ calc' = CapacityLocals(req)
    /\ UNCHANGED <<req, dbVars, fixVars, seedVars, genVars, bracket, runs, reportVars>>

NextCapacity == Calculate

SpecCapacity == InitCapacity /\ [][NextCapacity]_vars

(***************************************************************************)
(* SpecCreate: TournamentService.Create.  A call is one step: the inserts  *)
(* run inside one transaction, which the deferred Rollback undoes unless   *)
(* Commit succeeded.                                                       *)
(***************************************************************************)
ErrTooRestrictive == "tournament constraints too restrictive"
ErrBeginTx == "failed to begin transaction"
ErrCreateTournament == "failed to create tournament"
ErrCreateVenue == "failed to create venue"
ErrCommit == "failed to commit transaction"
NoError == "nil"

\* the operational hours of the Create requests: none at all (no match
\* slot), one well-formed window, a window whose end does not parse, and
\* a window whose start does not parse beside a well-formed one
CreateHours ==
    { <<>>,
      [d \in {"mon"} |-> [StartTime |-> C0900, EndTime |-> C1700]],
      [d \in {"mon"} |-> [StartTime |-> C0900, EndTime |-> CBad]],
      [d \in {"mon", "tue"} |->
          IF d = "mon" THEN [StartTime |-> CBad, EndTime |-> C1700]
          ELSE [StartTime |-> C0900, EndTime |-> C1300]] }

\* two-day requests with each of these hours, for every format
CreateRequests ==
    { [FormatType |-> f, FormatConfig |-> NilRec, StartDate |-> 0, EndDate |-> 24,
       MaxMatchesPerDay |-> 5, OperationalHours |-> h,
       AvgMatchDuration |-> 30, BufferTime |-> 10, Venues |-> VenueList(2)] :
      f \in FormatSet, h \in CreateHours }

\* where the database fails during a call: nowhere, at BeginTx, at the
\* tournament insert, at the insert of venue k, or at Commit
Failures(r) ==
    {<<"none", 0>>, <<"begin", 0>>, <<"tournament", 0>>, <<"commit", 0>>}
        \cup {<<"venue", k>> : k \in 1..Len(r.Venues)}

\* line 78 negated, accepting any positive capacity
CapacityAcceptedPositive(capacity) == capacity >= 1

\* line 78: the capacity passes the validation of step 2
CapacityAccepted(capacity) == capacity >= 2

\* lines 83-108: the tournament entity
TournamentEntity(id, r, capacity) ==
    [ID |-> id,
     FormatType |-> r.FormatType,
     FormatConfig |-> r.FormatConfig,
     StartDate |-> r.StartDate,
     EndDate |-> r.EndDate,
     MaxMatchesPerDay |-> r.MaxMatchesPerDay,
     OperationalHours |-> r.OperationalHours,
     AvgMatchDuration |-> r.AvgMatchDuration,
     BufferTime |-> r.BufferTime,
     CapacityLimit |-> capacity,
     CurrentParticipants |-> 0,
     Status |-> StatusDraft]

\* lines 123-131: the venue entities, with the UUIDs after the tournament's
VenueEntities(tid, r) ==
    {[ID |-> tid + i, TournamentID |-> tid, Name |-> r.Venues[i].Name] :
        i \in 1..Len(r.Venues)}

Create(r, fail) ==
    LET capacity == calculateTournamentCapacity(r)
        tid == uuid + 1
        tournament == TournamentEntity(tid, r, capacity)
        \* UUIDs drawn before the call returns
        drawn == CASE fail[1] \in {"begin", "tournament"} -> 1
                   [] fail[1] = "venue" -> 1 + fail[2]
                   [] OTHER -> 1 + Len(r.Venues)
        err == CASE fail[1] = "begin" -> ErrBeginTx
                 [] fail[1] = "tournament" -> ErrCreateTournament
                 [] fail[1] = "venue" -> ErrCreateVenue
                 [] fail[1] = "commit" -> ErrCommit
                 [] OTHER -> NoError
    IN /\ creates < MaxCreates
       /\ creates' = creates + 1
       /\ IF ~CapacityAccepted(capacity)
          THEN /\ lastCreate' = [req |-> r, capacity |-> capacity,
                                 err |-> ErrTooRestrictive, tournament |-> NilRec]
               /\ UNCHANGED <<tournaments, venues, uuid>>
          ELSE /\ uuid' = uuid + drawn
               /\ IF fail[1] = "none"
                  THEN /\ tournaments' = tournaments \cup {tournament}
                       /\ venues' = venues \cup VenueEntities(tid, r)
                       /\ lastCreate' = [req |-> r, capacity |-> capacity,
                                         err |-> NoError, tournament |-> tournament]
                  ELSE /\ UNCHANGED <<tournaments, venues>>
                       /\ lastCreate' = [req |-> r, capacity |-> capacity,
                                         err |-> err, tournament |-> NilRec]
       /\ UNCHANGED <<capVars, fixVars, seedVars, genVars, bracket, runs, reportVars>>

InitCreate ==
    /\ tournaments = {}
    /\ venues = {}
    /\ lastCreate = NoCreate
    /\ creates = 0
    /\ uuid = 0
    /\ IdleCapacity
    /\ IdleFixtures
    /\ IdleSeeding
    /\ IdleGenerate
    /\ IdleBracket
    /\ IdleRuns
    /\ IdleReport

NextCreate == \E r \in CreateRequests : \E fail \in Failures(r) : Create(r, fail)

SpecCreate == InitCreate /\ [][NextCreate]_vars

\* C6: when the computed capacity is below 2, Create returns an error and
\* stores no tournament and no venue; when it is 2 or more, a tournament it
\* stores has that capacity as capacity_limit; no stored tournament has a
\* capacity_limit below 2.
C6_CreateCapacityGate ==
    [][creates' = creates + 1 =>
         LET computed == calculateTournamentCapacity(lastCreate'.req)
         IN /\ computed < 2 =>
                 /\ lastCreate'.err = ErrTooRestrictive
                 /\ tournaments' = tournaments
                 /\ venues' = venues
            /\ computed >= 2 =>
                 /\ lastCreate'.err # ErrTooRestrictive
                 /\ \A t \in tournaments' \ tournaments : t.CapacityLimit = computed
                 /\ lastCreate'.err = NoError => tournaments' # tournaments
            /\ \A t \in tournaments' : t.CapacityLimit >= 2]_vars

\* a rejected call after an accepted one
C6_Witness ==
    /\ tournaments # {}
    /\ venues # {}
    /\ lastCreate # NoCreate
    /\ lastCreate.capacity < 2
    /\ lastCreate.err = ErrTooRestrictive

\* an entry whose start or end time does not parse as HH:MM
MalformedHours(hours) ==
    \E d \in DOMAIN hours :
        \/ ParseClock(hours[d].StartTime) = ZeroTimeMinutes
        \/ ParseClock(hours[d].EndTime) = ZeroTimeMinutes

\* C20: a request with a malformed operational-hours entry is refused
\* with the constraints error; its capacity is never accepted and no
\* tournament is made from it.
C20_MalformedHoursRejected ==
    (lastCreate # NoCreate /\ MalformedHours(lastCreate.req.OperationalHours)) =>
        /\ lastCreate.err = ErrTooRestrictive
        /\ lastCreate.tournament = NilRec
        /\ \A t \in tournaments : ~MalformedHours(t.OperationalHours)

(***************************************************************************)
(* Fixture generators.  A participant is [ID, Name, Seed], a match is a    *)
(* models.Match; UUIDs are the integers after the ones drawn before.       *)
(***************************************************************************)
\* int(math.Ceil(math.Log2(float64(n)))) for n >= 1: math.Log2 is exact on
\* powers of two, so this is the least r with 2^r >= n
RECURSIVE CeilLog2(_)
CeilLog2(n) == IF n <= 1 THEN 0 ELSE 1 + CeilLog2((n + 1) \div 2)

\* the halves laid side by side instead of interleaved
RECURSIVE createBracketPositionsSideBySide(_)
createBracketPositionsSideBySide(size) ==
    IF size = 2 THEN <<0, 1>>
    ELSE LET half == size \div 2
             left == createBracketPositionsSideBySide(half)
             right == createBracketPositionsSideBySide(half)
         IN [k \in 1..size |-> IF k <= half THEN left[k] ELSE right[k - half] + half]

\* the right half taken in the order of the left, not mirrored
RECURSIVE createBracketPositionsUnmirrored(_)
createBracketPositionsUnmirrored(size) ==
    IF size = 2 THEN <<0, 1>>
    ELSE LET half == size \div 2
             left == createBracketPositionsUnmirrored(half)
             right == createBracketPositionsUnmirrored(half)
         IN [k \in 1..size |->
                LET i == (k - 1) \div 2
                IN IF k % 2 = 1 THEN left[i + 1] ELSE right[i + 1] + half]

\* createBracketPositions: positions[i*2] = left[i] and
\* positions[i*2+1] = right[half-1-i] + half, the slices being 0-based
RECURSIVE createBracketPositions(_)
createBracketPositions(size) ==
    IF size = 2 THEN <<0, 1>>
    ELSE LET half == size \div 2
             left == createBracketPositions(half)
             right == createBracketPositions(half)
         IN [k \in 1..size |->
                LET i == (k - 1) \div 2
                IN IF k % 2 = 1 THEN left[i + 1] ELSE right[half - 1 - i + 1] + half]

\* the matches of one round, in slice order
SelectRound(matches, round) == SelectSeq(matches, LAMBDA m : m.RoundNumber = round)

\* 0-based index of matches[p] among the matches of its round
IndexInRound(matches, p) ==
    Cardinality({q \in 1..(p - 1) : matches[q].RoundNumber = matches[p].RoundNumber})

\* four matches, not two, sent to each match of the next round
linkBracketProgressionByFour(matches, rounds) ==
    [p \in 1..Len(matches) |->
        LET m == matches[p]
            nextRoundMatches == SelectRound(matches, m.RoundNumber + 1)
            nextMatchIndex == IndexInRound(matches, p) \div 4
        IN IF m.RoundNumber >= 1 /\ m.RoundNumber < rounds
              /\ nextMatchIndex < Len(nextRoundMatches)
           THEN [m EXCEPT !.NextMatchID = nextRoundMatches[nextMatchIndex + 1].ID]
           ELSE m]

\* line 652 without lines 653-655: only the match at the even index linked
linkBracketProgressionEvenOnly(matches, rounds) ==
    [p \in 1..Len(matches) |->
        LET m == matches[p]
            nextRoundMatches == SelectRound(matches, m.RoundNumber + 1)
            nextMatchIndex == IndexInRound(matches, p) \div 2
        IN IF m.RoundNumber >= 1 /\ m.RoundNumber < rounds
              /\ IndexInRound(matches, p) % 2 = 0
              /\ nextMatchIndex < Len(nextRoundMatches)
           THEN [m EXCEPT !.NextMatchID = nextRoundMatches[nextMatchIndex + 1].ID]
           ELSE m]

\* linkBracketProgression: the matches at indices i and i+1 (i even) of a
\* round below the last get the ID of match i/2 of the next round
linkBracketProgression(matches, rounds) ==
    [p \in 1..Len(matches) |->
        LET m == matches[p]
            nextRoundMatches == SelectRound(matches, m.RoundNumber + 1)
            nextMatchIndex == IndexInRound(matches, p) \div 2
        IN IF m.RoundNumber >= 1 /\ m.RoundNumber < rounds
              /\ nextMatchIndex < Len(nextRoundMatches)
           THEN [m EXCEPT !.NextMatchID = nextRoundMatches[nextMatchIndex + 1].ID]
           ELSE m]

\* the key taken as the seed itself, not the seed less one
PositionKeyOneBased(ps, i) == IF ps[i].Seed # Nil THEN ps[i].Seed ELSE i - 1

\* lines 563-570: the key a participant is filed under
PositionKey(ps, i) == IF ps[i].Seed # Nil THEN ps[i].Seed - 1 ELSE i - 1

\* participantPositions: later participants overwrite earlier ones
ParticipantPositions(ps) ==
    [k \in {PositionKey(ps, i) : i \in 1..Len(ps)} |->
        LET last == CHOOSE i \in 1..Len(ps) :
                        /\ PositionKey(ps, i) = k
                        /\ \A j \in (i + 1)..Len(ps) : PositionKey(ps, j) # k
        IN ps[last]]

\* the match with the test round == 1 of line 590 left out
NewMatchEveryRound(tid, id, round, matchNumber, i, n, positions, participantPositions) ==
    LET pos1 == positions[i * 2 + 1]
        pos2 == positions[i * 2 + 2]
    IN [ID |-> id,
        TournamentID |-> tid,
        RoundNumber |-> round,
        MatchNumber |-> matchNumber,
        Stage |-> "main",
        Status |-> MatchPending,
        Participant1ID |->
            IF pos1 \in DOMAIN participantPositions /\ pos1 < n
            THEN participantPositions[pos1].ID ELSE Nil,
        Participant2ID |->
            IF pos2 \in DOMAIN participantPositions /\ pos2 < n
            THEN participantPositions[pos2].ID ELSE Nil,
        NextMatchID |-> Nil]

\* lines 577-599: match i (0-based) of a round
NewMatch(tid, id, round, matchNumber, i, n, positions, participantPositions) ==
    LET pos1 == positions[i * 2 + 1]
        pos2 == positions[i * 2 + 2]
    IN [ID |-> id,
        TournamentID |-> tid,
        RoundNumber |-> round,
        MatchNumber |-> matchNumber,
        Stage |-> "main",
        Status |-> MatchPending,
        Participant1ID |->
            IF round = 1 /\ pos1 \in DOMAIN participantPositions /\ pos1 < n
            THEN participantPositions[pos1].ID ELSE Nil,
        Participant2ID |->
            IF round = 1 /\ pos2 \in DOMAIN participantPositions /\ pos2 < n
            THEN participantPositions[pos2].ID ELSE Nil,
        NextMatchID |-> Nil]

\* lines 573-604: the rounds from round on, matchNumber - 1 matches made
RECURSIVE RoundsFrom(_, _, _, _, _, _, _, _)
RoundsFrom(tid, base, round, rounds, matchNumber, n, positions, participantPositions) ==
    IF round > rounds THEN <<>>
    ELSE LET roundMatches == Len(positions) \div Pow2(round)
         IN [i \in 1..roundMatches |->
                NewMatch(tid, base + matchNumber + i - 1, round, matchNumber + i - 1,
                         i - 1, n, positions, participantPositions)]
            \o RoundsFrom(tid, base, round + 1, rounds, matchNumber + roundMatches,
                          n, positions, participantPositions)

generateSingleEliminationFixtures(tid, ps, base) ==
    LET n == Len(ps)
        rounds == CeilLog2(n)
        targetSize == Pow2(rounds)
        positions == createBracketPositions(targetSize)
        unlinked == RoundsFrom(tid, base, 1, rounds, 1, n, positions,
                               ParticipantPositions(ps))
    IN [fixtures |-> linkBracketProgression(unlinked, rounds),
        bracketPositions |-> positions]

\* the pairs (i, j), 0-based, from row i on; row i runs j from i + d to n - 1
RECURSIVE PairsFrom(_, _, _)
PairsFrom(i, n, d) ==
    IF i >= n THEN <<>>
    ELSE [k \in 1..(n - i - d) |-> <<i, i + d + k - 1>>] \o PairsFrom(i + 1, n, d)

RoundRobinMatches(tid, ps, base, pairs) ==
    [k \in 1..Len(pairs) |->
        [ID |-> base + k,
         TournamentID |-> tid,
         RoundNumber |-> 1,
         MatchNumber |-> k,
         Stage |-> "main",
         Status |-> MatchPending,
         Participant1ID |-> ps[pairs[k][1] + 1].ID,
         Participant2ID |-> ps[pairs[k][2] + 1].ID,
         NextMatchID |-> Nil]]

\* the inner loop started at j = i
generateRoundRobinFixturesFromSelf(tid, ps, base) ==
    RoundRobinMatches(tid, ps, base, PairsFrom(0, Len(ps), 0))

\* generateRoundRobinFixtures: for i in [0, n), for j in [i+1, n)
generateRoundRobinFixtures(tid, ps, base) ==
    RoundRobinMatches(tid, ps, base, PairsFrom(0, Len(ps), 1))

(***************************************************************************)
(* SpecFixtures: a generator applied to a participant list.                *)
(***************************************************************************)
\* n participants with distinct IDs, the list rotated by shift
ParticipantList(n, shift, seeded) ==
    [i \in 1..n |->
        [ID |-> 100 + ((i - 1 + shift) % n) + 1,
         Name |-> ((i - 1 + shift) % n) + 1,
         Seed |-> IF seeded THEN i ELSE Nil]]

ParticipantLists ==
    {ParticipantList(n, shift, seeded) :
        n \in 2..MaxParticipants, shift \in 0..(MaxParticipants - 1), seeded \in BOOLEAN}

FixtureTournamentID == 1

InitFixtures ==
    /\ format \in {FormatSingleElimination, FormatRoundRobin}
    /\ participants \in ParticipantLists
    /\ fixtures = <<>>
    /\ bracketPositions = <<>>
    /\ phase = "ready"
    /\ IdleCapacity
    /\ IdleDb
    /\ IdleSeeding
    /\ IdleGenerate
    /\ IdleBracket
    /\ IdleRuns
    /\ IdleReport

GenerateSingleElimination ==
    /\ phase = "ready"
    /\ format = FormatSingleElimination
    /\ LET out == generateSingleEliminationFixtures(FixtureTournamentID, participants, uuid)
       IN /\ fixtures' = out.fixtures
          /\ bracketPositions' = out.bracketPositions
          /\ uuid' = uuid + Len(out.fixtures)
    /\ phase' = "generated"
    /\ UNCHANGED <<format, participants, capVars, tournaments, venues, lastCreate, creates,
                   seedVars, genVars, bracket, runs, reportVars>>

GenerateRoundRobin ==
    /\ phase = "ready"
    /\ format = FormatRoundRobin
    /\ fixtures' = generateRoundRobinFixtures(FixtureTournamentID, participants, uuid)
    /\ uuid' = uuid + Len(fixtures')
    /\ phase' = "generated"
    /\ UNCHANGED <<format, participants, bracketPositions, capVars,
                   tournaments, venues, lastCreate, creates,
                   seedVars, genVars, bracket, runs, reportVars>>

NextFixtures == GenerateSingleElimination \/ GenerateRoundRobin

SpecFixtures == InitFixtures /\ [][NextFixtures]_vars

(***************************************************************************)
(* Properties of the fixture generators (SpecFixtures).                    *)
(***************************************************************************)
SingleEliminationDone == phase = "generated" /\ format = FormatSingleElimination
RoundRobinDone == phase = "generated" /\ format = FormatRoundRobin

MatchIndices == 1..Len(fixtures)

MaxRound == CHOOSE r \in {fixtures[p].RoundNumber : p \in MatchIndices} :
                \A p \in MatchIndices : fixtures[p].RoundNumber <= r

\* r = ceil(log2(n)), for n >= 2
IsCeilLog2(r, n) == r >= 1 /\ Pow2(r - 1) < n /\ n <= Pow2(r)

\* C1: single elimination of n >= 2 participants returns exactly n - 1
\* matches, and the highest round number is ceil(log2(n)).
C1_SingleEliminationCount ==
    SingleEliminationDone =>
        /\ Len(fixtures) = Len(participants) - 1
        /\ IsCeilLog2(MaxRound, Len(participants))

\* C2: round robin of n >= 2 participants returns exactly n(n-1)/2
\* matches; every unordered pair of distinct participants is the pair of
\* exactly one match, and no match pairs a participant with itself.
C2_RoundRobinPairs ==
    RoundRobinDone =>
        LET n == Len(participants)
            ids == {participants[i].ID : i \in 1..n}
            matchesOf(a, b) ==
                {p \in MatchIndices :
                    {fixtures[p].Participant1ID, fixtures[p].Participant2ID} = {a, b}}
        IN /\ Len(fixtures) = (n * (n - 1)) \div 2
           /\ \A a \in ids : \A b \in ids \ {a} : Cardinality(matchesOf(a, b)) = 1
           /\ \A p \in MatchIndices :
                 fixtures[p].Participant1ID # fixtures[p].Participant2ID

C2_Witness ==
    /\ RoundRobinDone
    /\ Len(participants) = 5
    /\ Len(fixtures) = 10
    /\ fixtures[10].Participant1ID = participants[4].ID
    /\ fixtures[10].Participant2ID = participants[5].ID

\* C3: createBracketPositions(size) is a permutation of 0..size-1 for the
\* power-of-two sizes; Positions(2) = [0,1] and Positions(4) = [0,3,1,2].
C3_PositionsPermutation ==
    SingleEliminationDone =>
        LET size == Pow2(CeilLog2(Len(participants)))
        IN /\ Len(bracketPositions) = size
           /\ Range(bracketPositions) = 0..(size - 1)
           /\ size = 2 => bracketPositions = <<0, 1>>
           /\ size = 4 => bracketPositions = <<0, 3, 1, 2>>

C3_Witness ==
    /\ SingleEliminationDone
    /\ Len(bracketPositions) = 16
    /\ bracketPositions[2] = 12

\* the matches a participant plays if it keeps winning: its round-1 match
\* and whatever next_match_id leads to from there
RECURSIVE PathFrom(_)
PathFrom(p) ==
    IF fixtures[p].NextMatchID = Nil THEN {p}
    ELSE {p} \cup UNION {PathFrom(q) :
                            q \in {x \in MatchIndices : fixtures[x].ID = fixtures[p].NextMatchID}}

PathOf(id) ==
    UNION {PathFrom(p) :
             p \in {x \in MatchIndices :
                       /\ fixtures[x].RoundNumber = 1
                       /\ id \in {fixtures[x].Participant1ID, fixtures[x].Participant2ID}}}

\* C4: in a seeded bracket of size T with log2(T) rounds, any two of the
\* seeds 1..2^k (2^k <= T) share no match before round log2(T) - k + 1:
\* seeds 1 and 2 only the final, seed 1 and seeds 3, 4 no match before the
\* semifinal.
C4_SeedsMeetLate ==
    (SingleEliminationDone /\ \A i \in 1..Len(participants) : participants[i].Seed # Nil) =>
        LET rounds == CeilLog2(Len(participants))
        IN \A k \in 0..rounds :
             \A i \in 1..Len(participants) : \A j \in 1..Len(participants) :
                (i # j /\ participants[i].Seed <= Pow2(k) /\ participants[j].Seed <= Pow2(k)) =>
                    \A p \in PathOf(participants[i].ID) \cap PathOf(participants[j].ID) :
                        fixtures[p].RoundNumber >= rounds - k + 1

\* a full bracket of 16 in which seeds 1 and 2 share the final and nothing
\* else, and seeds 1 and 4 share the semifinal
C4_Witness ==
    /\ SingleEliminationDone
    /\ Len(participants) = 16
    /\ \A i \in 1..16 : participants[i].Seed = i
    /\ {fixtures[p].RoundNumber :
            p \in PathOf(participants[1].ID) \cap PathOf(participants[2].ID)} = {4}
    /\ {fixtures[p].RoundNumber :
            p \in PathOf(participants[1].ID) \cap PathOf(participants[4].ID)} = {3, 4}

\* C5: a match whose next_match_id is set references a match of the round
\* after its own, and no match is the next_match_id of more than two.
C5_ProgressionLinks ==
    SingleEliminationDone =>
        /\ \A p \in MatchIndices :
              fixtures[p].NextMatchID # Nil =>
                  \E q \in MatchIndices :
                      /\ fixtures[q].ID = fixtures[p].NextMatchID
                      /\ fixtures[q].RoundNumber = fixtures[p].RoundNumber + 1
        /\ \A q \in MatchIndices :
              Cardinality({p \in MatchIndices : fixtures[p].NextMatchID = fixtures[q].ID}) <= 2

\* a three-round bracket whose final is fed by both semifinals
C5_Witness ==
    /\ SingleEliminationDone
    /\ MaxRound = 3
    /\ \E q \in MatchIndices :
          /\ fixtures[q].RoundNumber = 3
          /\ Cardinality({p \in MatchIndices : fixtures[p].NextMatchID = fixtures[q].ID}) = 2

\* the matches of round r of the generated bracket, in slice order
RoundOf(r) == SelectSeq(fixtures, LAMBDA m : m.RoundNumber = r)

\* the number of next_match_id steps from fixtures[p] to a match without one
RECURSIVE StepsToEnd(_)
StepsToEnd(p) ==
    IF fixtures[p].NextMatchID = Nil THEN 0
    ELSE 1 + StepsToEnd(CHOOSE q \in MatchIndices : fixtures[q].ID = fixtures[p].NextMatchID)

\* the match at which the next_match_id chain from fixtures[p] ends
RECURSIVE EndOf(_)
EndOf(p) ==
    IF fixtures[p].NextMatchID = Nil THEN p
    ELSE EndOf(CHOOSE q \in MatchIndices : fixtures[q].ID = fixtures[p].NextMatchID)

\* C24: in a single-elimination bracket the matches at indices 2k and
\* 2k+1 of a round r below the last both carry the id of match k of round
\* r+1 as next_match_id, the single match of the last round carries none,
\* and following next_match_id from a match of round r reaches that final
\* after exactly rounds - r steps.
C24_ProgressionPaths ==
    SingleEliminationDone =>
        LET rounds == CeilLog2(Len(participants))
        IN /\ \A r \in 1..(rounds - 1) :
                 \A i \in 1..Len(RoundOf(r)) :
                    /\ ((i - 1) \div 2) + 1 <= Len(RoundOf(r + 1))
                    /\ RoundOf(r)[i].NextMatchID = RoundOf(r + 1)[((i - 1) \div 2) + 1].ID
           /\ Len(RoundOf(rounds)) = 1
           /\ RoundOf(rounds)[1].NextMatchID = Nil
           /\ \A p \in MatchIndices :
                 /\ StepsToEnd(p) = rounds - fixtures[p].RoundNumber
                 /\ fixtures[EndOf(p)].RoundNumber = rounds

\* a bracket of four rounds for a number of participants that is no power
\* of two: the eight round-1 matches are three steps from the final
C24_Witness ==
    /\ SingleEliminationDone
    /\ Len(participants) = 11
    /\ Len(RoundOf(1)) = 8
    /\ \A p \in MatchIndices : fixtures[p].RoundNumber = 1 => StepsToEnd(p) = 3
    /\ RoundOf(1)[7].NextMatchID = RoundOf(2)[4].ID
    /\ RoundOf(1)[8].NextMatchID = RoundOf(2)[4].ID

\* C25: every match of rounds 2..rounds is created with both participant
\* slots empty, and when n is a power of two there is no bye: every
\* round-1 match has both participants assigned.
C25_LaterRoundsEmptyNoByes ==
    SingleEliminationDone =>
        /\ \A p \in MatchIndices :
              fixtures[p].RoundNumber >= 2 =>
                  /\ fixtures[p].Participant1ID = Nil
                  /\ fixtures[p].Participant2ID = Nil
        /\ Len(participants) = Pow2(CeilLog2(Len(participants))) =>
              \A p \in MatchIndices :
                  fixtures[p].RoundNumber = 1 =>
                      /\ fixtures[p].Participant1ID # Nil
                      /\ fixtures[p].Participant2ID # Nil

\* eight unseeded participants: four full round-1 matches, and three empty
\* matches after them
C25_Witness ==
    /\ SingleEliminationDone
    /\ Len(participants) = 8
    /\ participants[1].Seed = Nil
    /\ Len(RoundOf(1)) = 4
    /\ \A i \in 1..4 : RoundOf(1)[i].Participant1ID # Nil /\ RoundOf(1)[i].Participant2ID # Nil
    /\ Len(RoundOf(2)) = 2 /\ Len(RoundOf(3)) = 1
    /\ RoundOf(3)[1].Participant1ID = Nil

(***************************************************************************)
(* Properties of the capacity calculator (SpecCapacity).                   *)
(***************************************************************************)
\* the number of whole 24-hour days from start to end
WholeDays(r) ==
    CHOOSE k \in 0..(MaxSpanDays + 1) :
        /\ 24 * k <= r.EndDate - r.StartDate
        /\ r.EndDate - r.StartDate < 24 * (k + 1)

\* C7: totalMatchSlots is the smaller of maxMatchesPerDay x days and
\* floor(dailyOperationalMinutes / (avgMatchDuration + bufferTime)) x
\* venueCount x days, with days = whole days from start to end, plus 1.
C7_TotalMatchSlots ==
    calc # NoCalc =>
        LET days == WholeDays(req) + 1
            byDailyCap == req.MaxMatchesPerDay * days
            perVenue == calc.dailyMinutes \div (req.AvgMatchDuration + req.BufferTime)
            byVenues == perVenue * Len(req.Venues) * days
        IN /\ calc.days = days
           /\ calc.totalMatchSlots <= byDailyCap
           /\ calc.totalMatchSlots <= byVenues
           /\ calc.totalMatchSlots \in {byDailyCap, byVenues}

\* a day and a half long event whose venues, not the daily cap, govern
C7_Witness ==
    /\ calc # NoCalc
    /\ req.EndDate - req.StartDate = 36
    /\ calc.totalMatchSlots > 0
    /\ calc.totalMatchSlots < req.MaxMatchesPerDay * calc.days

\* the worked example of the capacity calculation
IsCapacityExample(r) ==
    /\ r.EndDate = r.StartDate
    /\ r.MaxMatchesPerDay = 4
    /\ Len(r.Venues) = 1
    /\ r.OperationalHours = [d \in {"mon"} |-> [StartTime |-> C0900, EndTime |-> C1700]]
    /\ r.AvgMatchDuration = 30
    /\ r.BufferTime = 10

\* C8: for single elimination the capacity is totalMatchSlots + 1; in the
\* worked example (1 day, cap 4, one venue, 480 minutes, 30 + 10 minutes
\* per match) totalMatchSlots is 4 and the capacity is 5.
C8_SingleEliminationCapacity ==
    (calc # NoCalc /\ req.FormatType = FormatSingleElimination) =>
        /\ calc.capacity = calc.totalMatchSlots + 1
        /\ IsCapacityExample(req) =>
              /\ calc.dailyMinutes = 480
              /\ calc.totalMatchSlots = 4
              /\ calc.capacity = 5

C8_Witness ==
    /\ calc # NoCalc
    /\ req.FormatType = FormatSingleElimination
    /\ IsCapacityExample(req)

\* C9: the round-robin capacity n is the largest n whose full round robin
\* fits: n(n-1)/2 <= totalMatchSlots < n(n+1)/2.
C9_RoundRobinLargestFit ==
    (calc # NoCalc /\ req.FormatType = FormatRoundRobin) =>
        LET n == calc.capacity
            slots == calc.totalMatchSlots
        IN /\ (n * (n - 1)) \div 2 <= slots
           /\ slots < (n * (n + 1)) \div 2

\* slots strictly between two triangular numbers
C9_Witness ==
    /\ calc # NoCalc
    /\ req.FormatType = FormatRoundRobin
    /\ calc.capacity >= 4
    /\ (calc.capacity * (calc.capacity - 1)) \div 2 < calc.totalMatchSlots

\* C10: group-to-knockout with groupSize S > 0 and numberOfGroups G > 0
\* needs required = G x S(S-1)/2 + 2G - 1 matches; the capacity is G x S
\* when required <= totalMatchSlots, else floor(G x S x totalMatchSlots /
\* required), which is below G x S; without group parameters it is
\* floor(totalMatchSlots / 3).
C10_GroupToKnockoutCapacity ==
    (calc # NoCalc /\ req.FormatType = FormatGroupToKnockout) =>
        LET slots == calc.totalMatchSlots
            c == req.FormatConfig
        IN IF c # NilRec /\ c.GroupSize > 0 /\ c.NumberOfGroups > 0
           THEN LET G == c.NumberOfGroups
                    S == c.GroupSize
                    required == G * ((S * (S - 1)) \div 2) + 2 * G - 1
                IN IF required <= slots
                   THEN calc.capacity = G * S
                   ELSE /\ calc.capacity = (G * S * slots) \div required
                        /\ calc.capacity < G * S
           ELSE calc.capacity = slots \div 3

(***************************************************************************)
(* applySeedingMethod.  Names are ordered as their numbers are.            *)
(***************************************************************************)
MaxSeeded == 4

\* lines 482-485: seedMap, a later entry for an ID replacing an earlier one
SeedMap(data) ==
    [id \in {data[k].ParticipantID : k \in DOMAIN data} |->
        LET last == CHOOSE k \in DOMAIN data :
                        /\ data[k].ParticipantID = id
                        /\ \A j \in (k + 1)..Len(data) : data[j].ParticipantID # id
        IN data[last].Seed]

\* the comparator with the two one-sided branches exchanged
ManualLessUnseededFirst(seedMap, a, b) ==
    LET okI == a.ID \in DOMAIN seedMap
        okJ == b.ID \in DOMAIN seedMap
    IN IF okI /\ okJ THEN seedMap[a.ID] < seedMap[b.ID]
       ELSE IF okI THEN FALSE
       ELSE IF okJ THEN TRUE
       ELSE a.Name < b.Name

\* lines 488-502: the comparator of the manual sort
ManualLess(seedMap, a, b) ==
    LET okI == a.ID \in DOMAIN seedMap
        okJ == b.ID \in DOMAIN seedMap
    IN IF okI /\ okJ THEN seedMap[a.ID] < seedMap[b.ID]
       ELSE IF okI THEN TRUE
       ELSE IF okJ THEN FALSE
       ELSE a.Name < b.Name

\* line 528: the comparator of the skill sort
NameLess(a, b) == a.Name < b.Name

\* the comparator handed to sort.Slice by a method
SliceLess(method, seedMap, a, b) ==
    IF method = "manual" THEN ManualLess(seedMap, a, b) ELSE NameLess(a, b)

\* sort.Slice: some permutation of ps in which no element is less than an
\* earlier one; the sort is not stable, so equal elements come in any order
SortSlice(ps, method, seedMap) ==
    {[i \in 1..Len(ps) |-> ps[f[i]]] :
        f \in {g \in Permutations(1..Len(ps)) :
                 \A i \in 1..Len(ps) : \A j \in (i + 1)..Len(ps) :
                    ~SliceLess(method, seedMap, ps[g[j]], ps[g[i]])}}

\* the loop with seed := i, the 0-based index
AssignSeedsZeroBased(ps) == [i \in 1..Len(ps) |-> [ps[i] EXCEPT !.Seed = i - 1]]

\* lines 505-508, 518-521, 531-534: seed := i + 1 for the 0-based index i
AssignSeeds(ps) == [i \in 1..Len(ps) |-> [ps[i] EXCEPT !.Seed = i]]

\* utils.RandomInt(max): a number of 0..max-1
RandomInt(max) == 0..(max - 1)

\* the draws of a shuffle that takes every j from the whole list,
\* j := RandomInt(len(participants))
DrawsWholeList(n) == [1..(n - 1) -> RandomInt(n)]

\* the draws of one shuffle: draws[i] is RandomInt(i + 1), for i = n-1 .. 1
Draws(n) == {d \in [1..(n - 1) -> RandomInt(n)] : \A i \in 1..(n - 1) : d[i] \in RandomInt(i + 1)}

\* the loop body as participants[i] = participants[j], not a swap
RECURSIVE ShuffleOverwrite(_, _, _)
ShuffleOverwrite(ps, i, draws) ==
    IF i <= 0 THEN ps
    ELSE ShuffleOverwrite([ps EXCEPT ![i + 1] = ps[draws[i] + 1]], i - 1, draws)

\* lines 512-515: for i = n-1 down to 1, swap elements i and draws[i]
RECURSIVE Shuffle(_, _, _)
Shuffle(ps, i, draws) ==
    IF i <= 0 THEN ps
    ELSE Shuffle([ps EXCEPT ![i + 1] = ps[draws[i] + 1], ![draws[i] + 1] = ps[i + 1]],
                 i - 1, draws)

\* the default branch assigning seeds as the three methods do
DefaultSeedingAssigns(ps) == AssignSeeds(ps)

\* lines 536-537: the default branch changes nothing
DefaultSeeding(ps) == ps

\* applySeedingMethod: the lists it can return, one for each run of the
\* sort and each sequence of draws
applySeedingMethod(ps, method, data) ==
    CASE method = "manual" ->
            {AssignSeeds(q) : q \in SortSlice(ps, method, SeedMap(data))}
      [] method = "random" ->
            {AssignSeeds(Shuffle(ps, Len(ps) - 1, d)) : d \in Draws(Len(ps))}
      [] method = "skill" ->
            {AssignSeeds(q) : q \in SortSlice(ps, method, <<>>)}
      [] OTHER -> {DefaultSeeding(ps)}

(***************************************************************************)
(* SpecSeeding: applySeedingMethod applied to a list as                    *)
(* TournamentParticipantRepository.GetByTournamentID returns it.           *)
(***************************************************************************)
\* ORDER BY tp.seed, p.name: NULL seeds first
RegisteredOrder(ps) ==
    \A i \in 1..(Len(ps) - 1) :
        \/ ps[i].Seed < ps[i + 1].Seed
        \/ ps[i].Seed = ps[i + 1].Seed /\ ps[i].Name <= ps[i + 1].Name

RegisteredLists(maxLen) ==
    UNION {{ps \in [1..n -> [ID : 101..(100 + n), Name : {1, 2}, Seed : {Nil, 1}]] :
                /\ \A i \in 1..n : ps[i].ID = 100 + i
                /\ RegisteredOrder(ps)} : n \in 0..maxLen}

\* seeding_data of the request: entries for listed and unlisted participants
SeedingEntries == [ParticipantID : {101, 103, 109}, Seed : {1, 2}]

SeedingDataSet ==
    {<<>>} \cup {<<e>> : e \in SeedingEntries}
           \cup {<<e, f>> : e \in SeedingEntries, f \in SeedingEntries}

SeedingMethods == {"manual", "random", "skill", "elo"}

\* only the manual branch reads the data: the other methods are run with
\* no data and with one entry, which they ignore
SeedingDataFor(method) ==
    IF method = "manual" THEN SeedingDataSet
    ELSE {<<>>, <<[ParticipantID |-> 103, Seed |-> 1]>>}

InitSeeding ==
    /\ participants \in RegisteredLists(MaxSeeded)
    /\ seedingMethod \in SeedingMethods
    /\ seedingData \in SeedingDataFor(seedingMethod)
    /\ seededParticipants = NilRec
    /\ format = "none"
    /\ fixtures = <<>>
    /\ bracketPositions = <<>>
    /\ phase = "ready"
    /\ IdleCapacity
    /\ IdleDb
    /\ IdleGenerate
    /\ IdleBracket
    /\ IdleRuns
    /\ IdleReport

ApplySeeding(method) ==
    /\ phase = "ready"
    /\ seedingMethod = method
    /\ seededParticipants' \in applySeedingMethod(participants, seedingMethod, seedingData)
    /\ phase' = "seeded"
    /\ UNCHANGED <<capVars, dbVars, format, participants, fixtures, bracketPositions,
                   seedingMethod, seedingData, genVars, bracket, runs, reportVars>>

\* GenerateFixtures lines 407-419 for a single-elimination tournament: the
\* seeded list, of two participants or more, goes to the generator
GenerateSeeded ==
    /\ phase = "seeded"
    /\ Len(seededParticipants) >= 2
    /\ LET out == generateSingleEliminationFixtures(FixtureTournamentID,
                                                    seededParticipants, uuid)
       IN /\ fixtures' = out.fixtures
          /\ bracketPositions' = out.bracketPositions
          /\ uuid' = uuid + Len(out.fixtures)
    /\ phase' = "generated"
    /\ UNCHANGED <<capVars, tournaments, venues, lastCreate, creates, format, participants,
                   seedVars, genVars, bracket, runs, reportVars>>

NextSeeding ==
    \/ ApplySeeding("manual")
    \/ ApplySeeding("random")
    \/ ApplySeeding("skill")
    \/ ApplySeeding("elo")
    \/ GenerateSeeded

SpecSeeding == InitSeeding /\ [][NextSeeding]_vars

(***************************************************************************)
(* Properties of the seeding assigner (SpecSeeding).                       *)
(***************************************************************************)
SeedingDone(method) == phase = "seeded" /\ seedingMethod = method

\* the entries of manualSeeds for a participant id
ManualEntries(id) == {k \in DOMAIN seedingData : seedingData[k].ParticipantID = id}

\* its manual seed: that of its only entry, of the last one should the
\* request name it twice
ManualSeed(id) ==
    seedingData[CHOOSE k \in ManualEntries(id) : \A j \in ManualEntries(id) : j <= k].Seed

\* C12: after manual seeding, every participant whose id has an entry in
\* manualSeeds precedes every participant without one; those with entries
\* are in ascending order of their manual seed; those without are in
\* ascending name order.
C12_ManualSeedingOrder ==
    SeedingDone("manual") =>
        \A i \in 1..Len(seededParticipants) : \A j \in (i + 1)..Len(seededParticipants) :
            LET a == seededParticipants[i]
                b == seededParticipants[j]
            IN /\ ManualEntries(b.ID) # {} => ManualEntries(a.ID) # {}
               /\ (ManualEntries(a.ID) # {} /\ ManualEntries(b.ID) # {}) =>
                     ManualSeed(a.ID) <= ManualSeed(b.ID)
               /\ (ManualEntries(a.ID) = {} /\ ManualEntries(b.ID) = {}) =>
                     a.Name <= b.Name

\* two manually seeded participants move to the front in seed order, the
\* two others follow in name order, against the order they came in
C12_Witness ==
    /\ SeedingDone("manual")
    /\ Len(seededParticipants) = 4
    /\ [i \in 1..4 |-> seededParticipants[i].ID] = <<103, 101, 104, 102>>

\* C13: for every sequence of draws, random seeding returns a permutation
\* of its input: every input participant appears exactly once in the
\* result, and nothing else does.
C13_RandomPermutation ==
    SeedingDone("random") =>
        /\ Len(seededParticipants) = Len(participants)
        /\ \A p \in 1..Len(participants) :
              Cardinality({i \in 1..Len(seededParticipants) :
                              /\ seededParticipants[i].ID = participants[p].ID
                              /\ seededParticipants[i].Name = participants[p].Name}) = 1

\* a shuffle that moved every one of four participants
C13_Witness ==
    /\ SeedingDone("random")
    /\ Len(seededParticipants) = 4
    /\ [i \in 1..4 |-> seededParticipants[i].ID] = <<102, 103, 104, 101>>

\* C14: after manual, random or skill seeding the participant at 0-based
\* position i has seed i + 1: the seeds are exactly 1..n.
C14_SeedsSequential ==
    (SeedingDone("manual") \/ SeedingDone("random") \/ SeedingDone("skill")) =>
        \A i \in 1..Len(seededParticipants) : seededParticipants[i].Seed = i

\* skill seeding that moves a participant registered with seed 1 in the
\* last place to the first
C14_Witness ==
    /\ SeedingDone("skill")
    /\ Len(participants) = 4
    /\ participants[4].Seed = 1
    /\ participants[1].Seed = Nil
    /\ seededParticipants[1].ID = 104
    /\ seededParticipants[4].Seed = 4

\* C22: with a method other than manual, random or skill, the list comes
\* back in its input order and every participant keeps the seed it had,
\* an unset seed included.
C22_UnknownMethodUnchanged ==
    (phase = "seeded" /\ seedingMethod \notin {"manual", "random", "skill"}) =>
        /\ Len(seededParticipants) = Len(participants)
        /\ \A i \in 1..Len(participants) :
              /\ seededParticipants[i].ID = participants[i].ID
              /\ seededParticipants[i].Name = participants[i].Name
              /\ seededParticipants[i].Seed = participants[i].Seed

\* four participants, the first two registered without a seed, the last
\* two with seed 1, names against the alphabet, come back as they were
C22_Witness ==
    /\ SeedingDone("elo")
    /\ Len(seededParticipants) = 4
    /\ [i \in 1..4 |-> seededParticipants[i].Seed] = <<Nil, Nil, 1, 1>>
    /\ seededParticipants[1].Name > seededParticipants[3].Name
    /\ seedingData # <<>>

RECURSIVE Factorial(_)
Factorial(n) == IF n <= 1 THEN 1 ELSE n * Factorial(n - 1)

\* the order of the IDs of a list
IDOrder(ps) == [i \in 1..Len(ps) |-> ps[i].ID]

\* C23: the shuffle is unbiased: with draw j_i from 0..i at each step
\* i = n-1 .. 1, the n! orderings of n participants are each produced by
\* exactly one sequence of draws: the ordering returned has exactly one,
\* and the sequences of draws produce n! different orderings.
C23_ShuffleUnbiased ==
    SeedingDone("random") =>
        LET n == Len(participants)
            produced == {<<d, IDOrder(Shuffle(participants, n - 1, d))>> : d \in Draws(n)}
        IN /\ Cardinality({x \in produced : x[2] = IDOrder(seededParticipants)}) = 1
           /\ Cardinality({x[2] : x \in produced}) = Factorial(n)

\* four participants returned in reverse order, which takes the draws
\* 0, 1, 1 for i = 3, 2, 1
C23_Witness ==
    /\ SeedingDone("random")
    /\ IDOrder(participants) = <<101, 102, 103, 104>>
    /\ IDOrder(seededParticipants) = <<104, 103, 102, 101>>
    /\ IDOrder(Shuffle(participants, 3, <<1, 1, 0>>)) = <<104, 103, 102, 101>>

\* the round-1 slots of the generated bracket that hold participant id
SlotsOf(id) ==
    {<<p, k>> \in (1..Len(fixtures)) \X {1, 2} :
        /\ fixtures[p].RoundNumber = 1
        /\ id = (IF k = 1 THEN fixtures[p].Participant1ID ELSE fixtures[p].Participant2ID)}

\* C26: after manual, random or skill seeding of two participants or more,
\* round 1 of the single-elimination bracket holds every participant in
\* exactly one participant slot, and no round-1 match has both slots empty.
C26_RoundOnePlacesEveryone ==
    (phase = "generated" /\ seedingMethod \in {"manual", "random", "skill"}) =>
        /\ \A i \in 1..Len(participants) : Cardinality(SlotsOf(participants[i].ID)) = 1
        /\ \A p \in 1..Len(fixtures) :
              fixtures[p].RoundNumber = 1 =>
                  fixtures[p].Participant1ID # Nil \/ fixtures[p].Participant2ID # Nil

\* three participants registered with seeds unset, unset and 1, seeded by
\* hand into another order: two round-1 matches, one of them with a bye
C26_Witness ==
    /\ phase = "generated"
    /\ seedingMethod = "manual"
    /\ Len(participants) = 3
    /\ participants[3].Seed = 1
    /\ IDOrder(seededParticipants) = <<103, 101, 102>>
    /\ Cardinality({p \in 1..Len(fixtures) : fixtures[p].RoundNumber = 1}) = 2
    /\ \E p \in 1..Len(fixtures) :
          fixtures[p].RoundNumber = 1 /\ fixtures[p].Participant2ID = Nil

(***************************************************************************)
(* SpecBracket: createBracketPositions run one call frame at a time, for   *)
(* any size.  A frame is [size, got, left, right]: got counts the          *)
(* recursive calls of the frame that have returned.  The goroutine stack   *)
(* is finite: a call beyond MaxStackDepth frames is the runtime's fatal    *)
(* stack overflow.  The function has no error result: err stays nil.       *)
(***************************************************************************)
MaxBracketSize == 16
MaxStackDepth == 8

NewFrame(size) == [size |-> size, got |-> 0, left |-> <<>>, right |-> <<>>]

\* lines 624-628: positions := make([]int, size), filled for i in [0, half)
InterleaveHalves(size, left, right) ==
    LET half == size \div 2
    IN [k \in 1..size |->
           LET i == (k - 1) \div 2
           IN IF i >= half THEN 0
              ELSE IF k % 2 = 1 THEN left[i + 1] ELSE right[half - 1 - i + 1] + half]

\* the top frame returns positions: to the caller of createBracketPositions
\* when it is the only frame, else into left or right of the frame below
ReturnPositions(b, positions) ==
    LET n == Len(b.stack)
        parent == b.stack[n - 1]
    IN IF n = 1
       THEN [b EXCEPT !.stack = <<>>, !.status = "returned", !.result = positions]
       ELSE [b EXCEPT !.stack =
                Append(SubSeq(b.stack, 1, n - 2),
                       IF parent.got = 0
                       THEN [parent EXCEPT !.got = 1, !.left = positions]
                       ELSE [parent EXCEPT !.got = 2, !.right = positions])]

Running == bracket.status = "running" /\ bracket.stack # <<>>

TopFrame == bracket.stack[Len(bracket.stack)]

InitBracket ==
    /\ \E size \in 0..MaxBracketSize :
          bracket = [size |-> size, stack |-> <<NewFrame(size)>>,
                     status |-> "running", result |-> <<>>, err |-> NoError]
    /\ phase = "idle"
    /\ format = "none"
    /\ participants = <<>>
    /\ fixtures = <<>>
    /\ bracketPositions = <<>>
    /\ IdleCapacity
    /\ IdleDb
    /\ IdleSeeding
    /\ IdleGenerate
    /\ IdleRuns
    /\ IdleReport

\* lines 614-616
BracketBase ==
    /\ Running
    /\ TopFrame.size = 2
    /\ bracket' = ReturnPositions(bracket, <<0, 1>>)
    /\ UNCHANGED <<capVars, dbVars, fixVars, seedVars, genVars, runs, reportVars>>

\* lines 619-621: the next recursive call on half
BracketDescend ==
    /\ Running
    /\ TopFrame.size # 2
    /\ TopFrame.got < 2
    /\ Len(bracket.stack) < MaxStackDepth
    /\ bracket' = [bracket EXCEPT !.stack = Append(@, NewFrame(TopFrame.size \div 2))]
    /\ UNCHANGED <<capVars, dbVars, fixVars, seedVars, genVars, runs, reportVars>>

\* the same call with no stack left for its frame
BracketOverflow ==
    /\ Running
    /\ TopFrame.size # 2
    /\ TopFrame.got < 2
    /\ Len(bracket.stack) >= MaxStackDepth
    /\ bracket' = [bracket EXCEPT !.status = "fatal"]
    /\ UNCHANGED <<capVars, dbVars, fixVars, seedVars, genVars, runs, reportVars>>

\* lines 624-630
BracketCombine ==
    /\ Running
    /\ TopFrame.size # 2
    /\ TopFrame.got = 2
    /\ bracket' = ReturnPositions(bracket,
                      InterleaveHalves(TopFrame.size, TopFrame.left, TopFrame.right))
    /\ UNCHANGED <<capVars, dbVars, fixVars, seedVars, genVars, runs, reportVars>>

NextBracket == BracketBase \/ BracketDescend \/ BracketOverflow \/ BracketCombine

SpecBracket == InitBracket /\ [][NextBracket]_vars

\* a power of two, 2 or more
ValidSize(size) == \E k \in 1..size : size = Pow2(k)

\* C19: for every size that is not a power of two or is below 2 the
\* position generator fails with InvalidSize when it returns, and it does
\* return: it does not recurse until the stack is exhausted.
C19_InvalidSizeRejected ==
    (bracket # NilRec /\ ~ValidSize(bracket.size)) =>
        /\ bracket.status # "fatal"
        /\ bracket.status = "returned" => bracket.err = "InvalidSize"

(***************************************************************************)
(* SpecGenerate: TournamentService.GenerateFixtures called by several      *)
(* requests for one stored tournament.  A call takes a step at each        *)
(* database access that another call can interleave with: the read of the  *)
(* tournament, the work up to the capacity check, BeginTx with the         *)
(* inserts, the status update, Commit.  The tables are InnoDB: a foreign   *)
(* key is checked at the insert, an insert share-locks the parent          *)
(* tournament row, and the status update needs that row for itself.        *)
(* Only the generators present in the source are dispatched to.            *)
(***************************************************************************)
MaxCallers == 2
MaxRegistered == 3

Callers == 1..MaxCallers

StatusRegistrationOpen == "registration_open"
StatusRegistrationClosed == "registration_closed"
StatusInProgress == "in_progress"

ErrTournamentNotFound == "tournament not found"
ErrNotClosed == "fixtures can only be generated after registration is closed"
ErrFetchParticipants == "failed to fetch participants"
ErrInsufficientParticipants == "insufficient participants"
ErrCapacityExceeded == "capacity exceeded"
ErrDriver == "driver error"
ErrCreateFixture == "failed to create fixture"
ErrUpdateStatus == "failed to update tournament status"

\* the stored tournaments fixtures are asked for: created from a request
\* Create accepts, with the status moved on since
GenerateRequests ==
    { [FormatType |-> f, FormatConfig |-> NilRec, StartDate |-> 0, EndDate |-> e,
       MaxMatchesPerDay |-> m,
       OperationalHours |-> [d \in {"mon"} |-> [StartTime |-> C0900, EndTime |-> C1700]],
       AvgMatchDuration |-> 30, BufferTime |-> 10, Venues |-> VenueList(2)] :
      f \in {FormatSingleElimination, FormatRoundRobin},
      e \in {0, 24}, m \in {1, 3} }

GenerateTournaments ==
    { [TournamentEntity(FixtureTournamentID, r, calculateTournamentCapacity(r))
          EXCEPT !.Status = st] :
      r \in {q \in GenerateRequests : CapacityAccepted(calculateTournamentCapacity(q))},
      st \in {StatusRegistrationOpen, StatusRegistrationClosed, StatusInProgress} }

\* the registered participants: n of them never seeded, in name order, or
\* the most of them seeded 1..n with the names running the other way
GenerateLists ==
    {[i \in 1..n |-> [ID |-> 100 + i, Name |-> i, Seed |-> Nil]] : n \in 0..MaxRegistered}
        \cup {[i \in 1..MaxRegistered |->
                   [ID |-> 100 + i, Name |-> MaxRegistered + 1 - i, Seed |-> i]]}

\* seeding_method and seeding_data of a request that passes the binding;
\* the draws of random seeding are those of SpecSeeding
GenerateArguments ==
    { <<"manual", <<[ParticipantID |-> 102, Seed |-> 1]>> >>,
      <<"skill", <<>> >> }

\* the locals of a call: the arguments, the tournament read, the seeded
\* list, the fixtures with their number, the rows the transaction wrote
NoCall ==
    [pc |-> "idle", method |-> "none", data |-> <<>>, tournament |-> NilRec,
     seeded |-> <<>>, fixtures |-> <<>>, generated |-> 0, written |-> {},
     err |-> NoError]

\* a return: (fixtures, nil) or (nil, err); the arguments, the tournament
\* read and the transaction are gone with the call
Returned(call, err) ==
    [NoCall EXCEPT !.pc = "done", !.err = err,
                   !.seeded = call.seeded,
                   !.generated = call.generated,
                   !.fixtures = IF err = NoError THEN call.fixtures ELSE <<>>]

\* the status check accepting everything but a draft
StatusAllowsGenerationNotDraft(status) == status # StatusDraft

\* line 397
StatusAllowsGeneration(status) == status = StatusRegistrationClosed

\* the participant check asking for three
EnoughParticipantsThree(n) == n >= 3

\* line 407
EnoughParticipants(n) == n >= 2

\* the capacity check with >= for >
ExceedsCapacityAtBound(count, tournament) ==
    count >= tournament.MaxMatchesPerDay
                * calculateTournamentDays(tournament.StartDate, tournament.EndDate)

\* lines 439-440
ExceedsCapacity(count, tournament) ==
    count > tournament.MaxMatchesPerDay
                * calculateTournamentDays(tournament.StartDate, tournament.EndDate)

\* lines 417-436: the dispatch on the format
GeneratedFixtures(tournament, ps, base) ==
    IF tournament.FormatType = FormatSingleElimination
    THEN generateSingleEliminationFixtures(tournament.ID, ps, base).fixtures
    ELSE generateRoundRobinFixtures(tournament.ID, ps, base)

\* FOREIGN KEY (next_match_id) REFERENCES matches(id), checked when row k
\* is inserted: the rows stored and those this transaction inserted before
ForeignKeyHolds(fs, k, table) ==
    \/ fs[k].NextMatchID = Nil
    \/ \E row \in table : row.ID = fs[k].NextMatchID
    \/ \E j \in 1..(k - 1) : fs[j].ID = fs[k].NextMatchID

\* the first insert the database rejects, 0 when it takes them all
FirstRejected(fs, table) ==
    LET bad == {k \in 1..Len(fs) : ~ForeignKeyHolds(fs, k, table)}
    IN IF bad = {} THEN 0 ELSE CHOOSE k \in bad : \A j \in bad : k <= j

\* the loop returning after its first insert
InsertedBeforeFirstOnly(fs, stop) ==
    {fs[k] : k \in 1..(IF stop = 0 THEN (IF Len(fs) = 0 THEN 0 ELSE 1) ELSE stop - 1)}

\* lines 452-456: the rows inserted when insert number stop fails, all of
\* them when stop = 0
InsertedBefore(fs, stop) ==
    {fs[k] : k \in 1..(IF stop = 0 THEN Len(fs) ELSE stop - 1)}

\* the inserts made outside the transaction, so that they stay
RolledBackKeepsRows(table, written) == table \cup written

\* line 450: the deferred Rollback of a transaction that did not commit
RolledBack(table, written) == table

\* line 463: Commit makes the rows and the status of the transaction visible
Committed(table, written) == table \cup written

SetStatus(rows, id, status) ==
    {IF t.ID = id THEN [t EXCEPT !.Status = status] ELSE t : t \in rows}

InitGenerate ==
    /\ \E t \in GenerateTournaments : tournaments = {t}
    /\ participants \in GenerateLists
    /\ calls = [c \in Callers |-> NoCall]
    /\ matchTable = {}
    /\ rowLocks = {}
    /\ venues = {}
    /\ lastCreate = NoCreate
    /\ creates = 0
    /\ uuid = 0
    /\ format = "none"
    /\ fixtures = <<>>
    /\ bracketPositions = <<>>
    /\ phase = "idle"
    /\ IdleCapacity
    /\ IdleSeeding
    /\ IdleBracket
    /\ IdleRuns
    /\ IdleReport

\* lines 391-399: GetByIDWithDetails and the state validation; fail is a
\* database error or a missing row
ReadTournament(c, args, fail) ==
    /\ calls[c].pc = "idle"
    /\ LET call == [calls[c] EXCEPT !.method = args[1], !.data = args[2]]
           found == {t \in tournaments : t.ID = FixtureTournamentID}
       IN calls' = [calls EXCEPT ![c] =
              IF fail \/ found = {} THEN Returned(call, ErrTournamentNotFound)
              ELSE LET t == CHOOSE x \in found : TRUE
                   IN IF ~StatusAllowsGeneration(t.Status)
                      THEN Returned([call EXCEPT !.tournament = t], ErrNotClosed)
                      ELSE [call EXCEPT !.pc = "checked", !.tournament = t]]
    /\ UNCHANGED <<capVars, dbVars, fixVars, seedVars, matchTable, rowLocks, bracket, runs, reportVars>>

\* lines 401-443: the participants, the seeding, the generator and the
\* capacity validation; nothing of it writes to the database
PrepareFixtures(c, fail) ==
    /\ calls[c].pc = "checked"
    /\ IF fail
       THEN /\ calls' = [calls EXCEPT ![c] = Returned(@, ErrFetchParticipants)]
            /\ uuid' = uuid
       ELSE IF ~EnoughParticipants(Len(participants))
       THEN /\ calls' = [calls EXCEPT ![c] = Returned(@, ErrInsufficientParticipants)]
            /\ uuid' = uuid
       ELSE \E sp \in applySeedingMethod(participants, calls[c].method, calls[c].data) :
               LET fs == GeneratedFixtures(calls[c].tournament, sp, uuid)
                   call == [calls[c] EXCEPT !.seeded = sp, !.fixtures = fs,
                                            !.generated = Len(fs)]
               IN /\ calls' = [calls EXCEPT ![c] =
                        IF ExceedsCapacity(Len(fs), calls[c].tournament)
                        THEN Returned(call, ErrCapacityExceeded)
                        ELSE [call EXCEPT !.pc = "generated"]]
                  /\ uuid' = uuid + Len(fs)
    /\ UNCHANGED <<capVars, tournaments, venues, lastCreate, creates, fixVars, seedVars,
                   matchTable, rowLocks, bracket, runs, reportVars>>

\* lines 446-456: BeginTx and the insert loop.  stop = -1: BeginTx fails;
\* stop = k > 0: the database fails at insert k; the foreign key may
\* reject an insert before that.  An insert waits while another
\* transaction has the tournament row for itself.
InsertFixtures(c, stop) ==
    /\ calls[c].pc = "generated"
    /\ stop \in -1..Len(calls[c].fixtures)
    /\ IF stop = -1
       THEN /\ calls' = [calls EXCEPT ![c] = Returned(@, ErrDriver)]
            /\ UNCHANGED <<matchTable, rowLocks>>
       ELSE /\ \A d \in Callers \ {c} : calls[d].pc # "updated"
            /\ LET fs == calls[c].fixtures
                   rejected == FirstRejected(fs, matchTable)
                   first == IF rejected = 0 THEN stop
                            ELSE IF stop = 0 \/ rejected < stop THEN rejected
                            ELSE stop
               IN IF first = 0
                  THEN /\ calls' = [calls EXCEPT ![c] =
                              [@ EXCEPT !.pc = "inserted", !.written = InsertedBefore(fs, 0)]]
                       /\ rowLocks' = rowLocks \cup {c}
                       /\ UNCHANGED matchTable
                  ELSE /\ calls' = [calls EXCEPT ![c] = Returned(@, ErrCreateFixture)]
                       /\ matchTable' = RolledBack(matchTable, InsertedBefore(fs, first))
                       /\ UNCHANGED rowLocks
    /\ UNCHANGED <<capVars, dbVars, fixVars, seedVars, bracket, runs, reportVars>>

\* lines 459-461: UPDATE tournaments SET status inside the transaction; it
\* waits for the row while another transaction holds a lock on it, and
\* fails on a deadlock, a lock wait timeout or another database error
UpdateStatus(c, fail) ==
    /\ calls[c].pc = "inserted"
    /\ IF fail
       THEN /\ calls' = [calls EXCEPT ![c] = Returned(@, ErrUpdateStatus)]
            /\ matchTable' = RolledBack(matchTable, calls[c].written)
            /\ rowLocks' = rowLocks \ {c}
       ELSE /\ rowLocks \ {c} = {}
            /\ calls' = [calls EXCEPT ![c] = [@ EXCEPT !.pc = "updated"]]
            /\ UNCHANGED <<matchTable, rowLocks>>
    /\ UNCHANGED <<capVars, dbVars, fixVars, seedVars, bracket, runs, reportVars>>

\* lines 463-474: Commit and the return
CommitFixtures(c, fail) ==
    /\ calls[c].pc = "updated"
    /\ rowLocks' = rowLocks \ {c}
    /\ IF fail
       THEN /\ calls' = [calls EXCEPT ![c] = Returned(@, ErrDriver)]
            /\ matchTable' = RolledBack(matchTable, calls[c].written)
            /\ UNCHANGED tournaments
       ELSE /\ calls' = [calls EXCEPT ![c] = Returned(@, NoError)]
            /\ matchTable' = Committed(matchTable, calls[c].written)
            /\ tournaments' = SetStatus(tournaments, FixtureTournamentID, StatusInProgress)
    /\ UNCHANGED <<capVars, venues, lastCreate, creates, uuid, fixVars, seedVars, bracket, runs, reportVars>>

NextGenerate ==
    \/ \E c \in Callers : \E args \in GenerateArguments : \E fail \in BOOLEAN :
          ReadTournament(c, args, fail)
    \/ \E c \in Callers : \E fail \in BOOLEAN : PrepareFixtures(c, fail)
    \/ \E c \in Callers : \E stop \in -1..(2 * MaxRegistered) : InsertFixtures(c, stop)
    \/ \E c \in Callers : \E fail \in BOOLEAN : UpdateStatus(c, fail)
    \/ \E c \in Callers : \E fail \in BOOLEAN : CommitFixtures(c, fail)

SpecGenerate == InitGenerate /\ [][NextGenerate]_vars

(***************************************************************************)
(* Properties of GenerateFixtures (SpecGenerate).                          *)
(***************************************************************************)
StoredTournament == CHOOSE t \in tournaments : t.ID = FixtureTournamentID

ReturnedWith(c, err) == calls[c].pc = "done" /\ calls[c].err = err

\* call c returns in this step
Returns(c) == calls[c].pc # "done" /\ calls'[c].pc = "done"

\* maxMatchesPerDay x days of the stored tournament
MaxPossibleMatches ==
    StoredTournament.MaxMatchesPerDay * (WholeDays(StoredTournament) + 1)

\* C11: GenerateFixtures fails with ErrCapacityExceeded exactly when the
\* number of generated fixtures is greater than maxMatchesPerDay x days; a
\* list at or below that bound passes the check.
C11_CapacityCheck ==
    \A c \in DOMAIN calls :
        (calls[c].generated > 0 \/ ReturnedWith(c, ErrCapacityExceeded)) =>
            (calls[c].err = ErrCapacityExceeded <=> calls[c].generated > MaxPossibleMatches)

\* a list one longer than the bound is rejected
C11_Witness ==
    \E c \in DOMAIN calls :
        /\ ReturnedWith(c, ErrCapacityExceeded)
        /\ calls[c].generated = MaxPossibleMatches + 1

\* C15: a call succeeds only when the status it read is
\* registration_closed, and its success leaves the status in_progress; a
\* call that starts after a successful one fails and stores nothing, so
\* calls that do not overlap store fixtures at most once.
C15_OnceFromRegistrationClosed ==
    [][\A c \in DOMAIN calls :
          /\ (Returns(c) /\ calls'[c].err = NoError) =>
                /\ calls[c].tournament.Status = StatusRegistrationClosed
                /\ StoredTournament'.Status = StatusInProgress
          /\ (calls[c].pc = "idle" /\ calls'[c].pc # "idle"
                /\ \E d \in DOMAIN calls : ReturnedWith(d, NoError)) =>
                /\ calls'[c].pc = "done"
                /\ calls'[c].err \in {ErrNotClosed, ErrTournamentNotFound}
                /\ matchTable' = matchTable]_vars

\* a call refused because an earlier one had stored the fixtures
C15_Witness ==
    /\ calls # <<>>
    /\ ReturnedWith(1, NoError)
    /\ ReturnedWith(2, ErrNotClosed)
    /\ StoredTournament.Status = StatusInProgress
    /\ matchTable = Range(calls[1].fixtures)
    /\ Cardinality(matchTable) = 3

\* C16: two overlapping calls are not safe without an external lock: when
\* both have read registration_closed before either commits and neither
\* meets a failure, both store their complete fixture set.
C16_OverlappingCallsBothStore ==
    \A c \in DOMAIN calls : \A d \in DOMAIN calls \ {c} :
        (ReturnedWith(c, NoError) /\ ReturnedWith(d, NoError)) =>
            /\ Len(calls[c].fixtures) = calls[c].generated
            /\ Len(calls[d].fixtures) = calls[d].generated
            /\ Range(calls[c].fixtures) \cup Range(calls[d].fixtures) \subseteq matchTable
            /\ Cardinality({m \in matchTable : m.TournamentID = FixtureTournamentID})
                  >= calls[c].generated + calls[d].generated

\* one tournament holding two complete round robins of three
C16_Witness ==
    /\ calls # <<>>
    /\ ReturnedWith(1, NoError)
    /\ ReturnedWith(2, NoError)
    /\ calls[1].generated = 3
    /\ calls[2].generated = 3
    /\ Cardinality(matchTable) = 6

C18_InsufficientParticipants ==
    [][\A c \in DOMAIN calls :
          /\ (calls[c].pc = "checked" /\ calls'[c].pc # "checked"
                /\ calls'[c].err # ErrFetchParticipants /\ Len(participants) < 2) =>
                /\ calls'[c].pc = "done"
                /\ calls'[c].err = ErrInsufficientParticipants
                /\ calls'[c].seeded = <<>>
                /\ calls'[c].generated = 0
                /\ calls'[c].fixtures = <<>>
                /\ uuid' = uuid
                /\ matchTable' = matchTable
                /\ tournaments' = tournaments
                /\ (\A d \in DOMAIN calls : ~ReturnedWith(d, NoError)) =>
                       /\ matchTable' = {}
                       /\ StoredTournament'.Status = StatusRegistrationClosed
          /\ calls'[c].err = ErrInsufficientParticipants => Len(participants) < 2]_vars

\* a tournament with one registrant
C18_Witness ==
    /\ calls # <<>>
    /\ Len(participants) = 1
    /\ ReturnedWith(1, ErrInsufficientParticipants)
    /\ matchTable = {}
    /\ StoredTournament.Status = StatusRegistrationClosed

\* C27: the capacity promise is honoured at fixture time: for a stored
\* single-elimination or round-robin tournament, with the constraints its
\* capacity was calculated from, GenerateFixtures never fails with
\* ErrCapacityExceeded when the number n of registered participants is
\* 2 <= n <= the calculated capacity.
C27_CapacityPromise ==
    (/\ StoredTournament.FormatType \in {FormatSingleElimination, FormatRoundRobin}
     /\ Len(participants) >= 2
     /\ Len(participants) <= StoredTournament.CapacityLimit) =>
        \A c \in DOMAIN calls : ~ReturnedWith(c, ErrCapacityExceeded)

\* C28: when GenerateFixtures stores a single-elimination bracket, every
\* match is inserted only after the match its next_match_id references:
\* in the order of the insert loop, the referenced match comes earlier.
C28_InsertOrderSatisfiesForeignKey ==
    \A c \in DOMAIN calls :
        (/\ calls[c].pc \in {"generated", "inserted", "updated"}
         /\ calls[c].tournament.FormatType = FormatSingleElimination) =>
            \A k \in 1..Len(calls[c].fixtures) :
                calls[c].fixtures[k].NextMatchID # Nil =>
                    \E j \in 1..(k - 1) :
                        calls[c].fixtures[j].ID = calls[c].fixtures[k].NextMatchID

(***************************************************************************)
(* SpecDeterminism: calculateTournamentCapacity run several times on one   *)
(* request.  models.OperationalHours is a Go map, and the range loop of    *)
(* calculateDailyOperationalMinutes visits its entries in an order that    *)
(* differs from run to run; each run draws its order.                      *)
(***************************************************************************)
MaxRuns == 2

Weekdays == {"mon", "tue", "wed"}

\* the orders in which a range over the map can visit its keys
IterationOrders(hours) ==
    { [i \in 1..Cardinality(DOMAIN hours) |-> f[i]] :
        f \in { g \in [1..Cardinality(DOMAIN hours) -> DOMAIN hours] :
                  \A i, j \in 1..Cardinality(DOMAIN hours) : i # j => g[i] # g[j] } }

\* lines 264-267 with the running total replaced instead of added to
AccumulateDayOverwrite(acc, dailyMinutes) ==
    IF dailyMinutes > 0
    THEN [totalMinutes |-> dailyMinutes, daysCount |-> acc.daysCount + 1]
    ELSE acc

\* lines 264-267: one iteration's effect on totalMinutes and daysCount
AccumulateDay(acc, dailyMinutes) ==
    IF dailyMinutes > 0
    THEN [totalMinutes |-> acc.totalMinutes + dailyMinutes,
          daysCount |-> acc.daysCount + 1]
    ELSE acc

\* lines 257-268: the loop over the first i keys of the order
RECURSIVE RangeDayMinutes(_, _, _)
RangeDayMinutes(hours, order, i) ==
    IF i = 0 THEN [totalMinutes |-> 0, daysCount |-> 0]
    ELSE AccumulateDay(RangeDayMinutes(hours, order, i - 1), DayMinutes(hours[order[i]]))

\* calculateDailyOperationalMinutes when the map is visited in this order
DailyOperationalMinutesInOrder(hours, order) ==
    LET acc == RangeDayMinutes(hours, order, Len(order))
    IN IF acc.daysCount = 0 THEN 0
       ELSE acc.totalMinutes \div acc.daysCount

CapacityInOrder(r, order) ==
    CapacityLocalsFrom(r, DailyOperationalMinutesInOrder(r.OperationalHours, order)).capacity

\* maps of one to three weekdays with windows of different lengths, an
\* inverted window and malformed strings among them
WeekHoursSet ==
    UNION { [days -> DayHoursSet] : days \in (SUBSET Weekdays) \ {{}} }

DeterminismRequests ==
    { [FormatType |-> f, FormatConfig |-> c, StartDate |-> 0, EndDate |-> 24,
       MaxMatchesPerDay |-> 264, OperationalHours |-> h,
       AvgMatchDuration |-> d[1], BufferTime |-> d[2], Venues |-> VenueList(1)] :
      f \in {FormatSingleElimination, FormatRoundRobin, FormatGroupToKnockout},
      c \in {[NumberOfGroups |-> 17, GroupSize |-> 11, NumberOfRounds |-> 0]},
      h \in WeekHoursSet, d \in {<<30, 10>>} }

InitDeterminism ==
    /\ req \in DeterminismRequests
    /\ calc = NoCalc
    /\ runs = <<>>
    /\ IdleDb
    /\ IdleFixtures
    /\ IdleSeeding
    /\ IdleGenerate
    /\ IdleBracket
    /\ IdleReport

\* one more run of calculateTournamentCapacity on the same request
RunCapacity(order) ==
    /\ Len(runs) < MaxRuns
    /\ runs' = Append(runs, [order |-> order, capacity |-> CapacityInOrder(req, order)])
    /\ UNCHANGED <<capVars, dbVars, fixVars, seedVars, genVars, bracket, reportVars>>

NextDeterminism == \E order \in IterationOrders(req.OperationalHours) : RunCapacity(order)

SpecDeterminism == InitDeterminism /\ [][NextDeterminism]_vars

\* C21: the capacity is deterministic: all runs on one request, whatever
\* order each of them visited the operational-hours map in, return the same
\* capacity, which is also the one the calculator gives for the request.
C21_CapacityDeterministic ==
    /\ \A i, j \in 1..Len(runs) : runs[i].capacity = runs[j].capacity
    /\ runs # <<>> => runs[1].capacity = calculateTournamentCapacity(req)

\* two runs that visited three windows of different lengths in different
\* orders, where the venue capacity decides the result
C21_Witness ==
    /\ Len(runs) >= 2
    /\ runs[1].order # runs[2].order
    /\ Len(runs[1].order) = 3
    /\ \A a, b \in DOMAIN req.OperationalHours :
          a # b => DayMinutes(req.OperationalHours[a]) # DayMinutes(req.OperationalHours[b])
    /\ req.FormatType = FormatRoundRobin
    /\ runs[1].capacity > 1
    /\ runs[1].capacity < 264

(***************************************************************************)
(* SpecReport: MatchService.StartMatch and MatchService.ReportScore on the *)
(* stored rows of a single-elimination bracket.  The repository methods    *)
(* ReportScore calls run on the connection pool (r.db), each statement in  *)
(* its own implicit transaction; the transaction ReportScore begins        *)
(* carries no statement.  A call is one step; fail names the statement at  *)
(* which the database fails.                                               *)
(***************************************************************************)
MaxReports == 2
MaxScore == 1

\* a NULL score1 or score2; 0 is a score
NoScore == -1

MatchScheduled == "scheduled"
MatchInProgress == "in_progress"
MatchCompleted == "completed"

ErrMatchNotFound == "match not found"
ErrNotReportable == "match is not in a state where score can be reported"
ErrTieScore == "tie score not allowed - must have a winner"
ErrUpdateScore == "failed to update score"
ErrGetNextMatch == "failed to get next match"
ErrNextMatchFull == "next match already has both participants"
ErrUpdateNextMatch == "failed to update next match"

ReportFailures == {"none", "get", "begin", "score", "next_get", "next_update", "commit"}

\* a row of table matches for a generated match: the columns of the INSERT
\* that the generator leaves NULL come with it
StoredMatch(m) ==
    [ID |-> m.ID,
     TournamentID |-> m.TournamentID,
     RoundNumber |-> m.RoundNumber,
     MatchNumber |-> m.MatchNumber,
     Status |-> m.Status,
     Participant1ID |-> m.Participant1ID,
     Participant2ID |-> m.Participant2ID,
     WinnerID |-> Nil,
     Score1 |-> NoScore,
     Score2 |-> NoScore,
     VenueID |-> Nil,
     NextMatchID |-> m.NextMatchID]

\* the rows of the bracket of n seeded participants
StoredBracket(n) ==
    LET fs == generateSingleEliminationFixtures(FixtureTournamentID,
                                                ParticipantList(n, 0, TRUE), 0).fixtures
    IN {StoredMatch(fs[k]) : k \in 1..Len(fs)}

\* GetByID: the row with this id; NilRec stands for sql.ErrNoRows
GetByID(table, id) ==
    IF \E row \in table : row.ID = id
    THEN CHOOSE row \in table : row.ID = id
    ELSE NilRec

\* MatchRepository.Update: UPDATE matches SET scheduled_datetime, venue_id,
\* referee_id, notes WHERE id; VenueID stands for the four columns
RepoUpdate(table, m) ==
    {IF row.ID = m.ID THEN [row EXCEPT !.VenueID = m.VenueID] ELSE row : row \in table}

\* MatchRepository.UpdateScore
RepoUpdateScore(table, id, score1, score2, winnerID) ==
    {IF row.ID = id
     THEN [row EXCEPT !.Score1 = score1, !.Score2 = score2, !.WinnerID = winnerID,
                      !.Status = MatchCompleted]
     ELSE row : row \in table}

\* MatchRepository.UpdateStatus
RepoUpdateStatus(table, id, status) ==
    {IF row.ID = id THEN [row EXCEPT !.Status = status] ELSE row : row \in table}

\* ParticipantRepository.UpdateStats; an id of no row updates nothing
UpdateStats(stats, id, matchesPlayed, matchesWon) ==
    IF id \in DOMAIN stats
    THEN [stats EXCEPT ![id] = [played |-> @.played + matchesPlayed,
                                 won |-> @.won + matchesWon]]
    ELSE stats

\* lines 167-181: the statistics of the two participants of the match
ReportStats(stats, match, winnerID) ==
    LET first == IF match.Participant1ID # Nil
                 THEN UpdateStats(stats, match.Participant1ID, 1,
                                  IF winnerID = match.Participant1ID THEN 1 ELSE 0)
                 ELSE stats
    IN IF match.Participant2ID # Nil
       THEN UpdateStats(first, match.Participant2ID, 1,
                        IF winnerID = match.Participant2ID THEN 1 ELSE 0)
       ELSE first

\* lines 120-127: the winner, Nil for the error branch
DetermineWinner(match, score1, score2) ==
    IF score1 > score2 /\ match.Participant1ID # Nil THEN match.Participant1ID
    ELSE IF score2 > score1 /\ match.Participant2ID # Nil THEN match.Participant2ID
    ELSE Nil

\* lines 146-153: nextMatch with the winner in its first empty slot, NilRec
\* when it has none
FillSlot(nextMatch, winnerID) ==
    IF nextMatch.Participant1ID = Nil THEN [nextMatch EXCEPT !.Participant1ID = winnerID]
    ELSE IF nextMatch.Participant2ID = Nil THEN [nextMatch EXCEPT !.Participant2ID = winnerID]
    ELSE NilRec

\* what a ReportScore call leaves: the tables, the winner and the error
ReportOutcome(table, stats, winnerID, err) ==
    [table |-> table, stats |-> stats, winnerID |-> winnerID, err |-> err]

\* lines 139-186: from UpdateScore to the return
ReportProgression(table, stats, match, score1, score2, winnerID, fail) ==
    IF fail = "score" THEN ReportOutcome(table, stats, winnerID, ErrUpdateScore)
    ELSE LET scored == RepoUpdateScore(table, match.ID, score1, score2, winnerID)
             nextMatch == GetByID(scored, match.NextMatchID)
             filled == FillSlot(nextMatch, winnerID)
             linked == IF match.NextMatchID = Nil THEN scored ELSE RepoUpdate(scored, filled)
         IN IF match.NextMatchID # Nil /\ (fail = "next_get" \/ nextMatch = NilRec)
            THEN ReportOutcome(scored, stats, winnerID, ErrGetNextMatch)
            ELSE IF match.NextMatchID # Nil /\ filled = NilRec
            THEN ReportOutcome(scored, stats, winnerID, ErrNextMatchFull)
            ELSE IF match.NextMatchID # Nil /\ fail = "next_update"
            THEN ReportOutcome(scored, stats, winnerID, ErrUpdateNextMatch)
            ELSE ReportOutcome(linked, ReportStats(stats, match, winnerID), winnerID,
                               IF fail = "commit" THEN ErrCommit ELSE NoError)

\* lines 105-137: the match, the state validation, the winner and BeginTx
ReportScoreOutcome(table, stats, matchID, score1, score2, fail) ==
    LET match == GetByID(table, matchID)
    IN IF fail = "get" \/ match = NilRec
       THEN ReportOutcome(table, stats, Nil, ErrMatchNotFound)
       ELSE IF match.Status # MatchScheduled /\ match.Status # MatchInProgress
       THEN ReportOutcome(table, stats, Nil, ErrNotReportable)
       ELSE LET winnerID == DetermineWinner(match, score1, score2)
            IN IF winnerID = Nil THEN ReportOutcome(table, stats, Nil, ErrTieScore)
               ELSE IF fail = "begin" THEN ReportOutcome(table, stats, winnerID, ErrBeginTx)
               ELSE ReportProgression(table, stats, match, score1, score2, winnerID, fail)

NoReport ==
    [calls |-> 0, matchID |-> Nil, winnerID |-> Nil, err |-> NoError,
     before |-> NilRec, nextBefore |-> NilRec]

InitReport ==
    /\ \E n \in 3..4 :
          /\ matchTable = StoredBracket(n)
          /\ participantStats = [id \in {100 + i : i \in 1..n} |-> [played |-> 0, won |-> 0]]
    /\ lastReport = NoReport
    /\ calls = <<>>
    /\ rowLocks = {}
    /\ IdleCapacity
    /\ IdleDb
    /\ IdleFixtures
    /\ IdleSeeding
    /\ IdleBracket
    /\ IdleRuns

\* StartMatch: UpdateStatus(matchID, in_progress), whatever the status was
StartMatch(matchID, fail) ==
    /\ matchTable' = IF fail THEN matchTable
                     ELSE RepoUpdateStatus(matchTable, matchID, MatchInProgress)
    /\ UNCHANGED <<capVars, dbVars, fixVars, seedVars, calls, rowLocks, bracket, runs,
                   reportVars>>

ReportScore(matchID, score1, score2, fail) ==
    /\ lastReport.calls < MaxReports
    /\ LET out == ReportScoreOutcome(matchTable, participantStats, matchID,
                                     score1, score2, fail)
           before == GetByID(matchTable, matchID)
       IN /\ matchTable' = out.table
          /\ participantStats' = out.stats
          /\ lastReport' = [calls |-> lastReport.calls + 1,
                            matchID |-> matchID,
                            winnerID |-> out.winnerID,
                            err |-> out.err,
                            before |-> before,
                            nextBefore |-> IF before = NilRec THEN NilRec
                                           ELSE GetByID(matchTable, before.NextMatchID)]
    /\ UNCHANGED <<capVars, dbVars, fixVars, seedVars, calls, rowLocks, bracket, runs>>

\* the ids of the matches of the largest bracket, and one of no match
ReportMatchIDs == 0..3

NextReport ==
    \/ \E id \in ReportMatchIDs : \E fail \in BOOLEAN : StartMatch(id, fail)
    \/ \E id \in ReportMatchIDs : \E s1, s2 \in 0..MaxScore : \E fail \in ReportFailures :
          ReportScore(id, s1, s2, fail)

SpecReport == InitReport /\ [][NextReport]_vars

\* the stored row of a match
StoredRow(id) == GetByID(matchTable, id)

\* the last ReportScore call returned nil for a match with a next match
ReportedWithNext ==
    /\ lastReport.calls > 0
    /\ lastReport.err = NoError
    /\ lastReport.nextBefore # NilRec

\* the matches whose next match is the match id
Feeders(id) == {row \in matchTable : row.NextMatchID = id}

\* C29: after a successful ReportScore on a match whose next_match_id is
\* set, the stored next match holds the winner in its first empty slot
\* (participant 1 if that was empty, otherwise participant 2); and a stored
\* match whose two feeder matches are both reported holds both winners.
C29_WinnerAdvances ==
    /\ ReportedWithNext =>
          LET next == StoredRow(lastReport.nextBefore.ID)
          IN IF lastReport.nextBefore.Participant1ID = Nil
             THEN next.Participant1ID = lastReport.winnerID
             ELSE next.Participant2ID = lastReport.winnerID
    /\ \A row \in matchTable :
          (/\ Cardinality(Feeders(row.ID)) = 2
           /\ \A f \in Feeders(row.ID) : f.Status = MatchCompleted /\ f.WinnerID # Nil) =>
              {row.Participant1ID, row.Participant2ID} = {f.WinnerID : f \in Feeders(row.ID)}

\* C30: when ReportScore returns an error after the winner was determined
\* (the next match cannot be loaded, the next match has both participants,
\* the update of the next match or the commit fails), the stored score,
\* winner and status of the reported match are what they were.
C30_FailedReportLeavesMatch ==
    (/\ lastReport.calls > 0
     /\ lastReport.winnerID # Nil
     /\ lastReport.err \in {ErrGetNextMatch, ErrNextMatchFull, ErrUpdateNextMatch, ErrCommit}) =>
        LET now == StoredRow(lastReport.matchID)
        IN /\ now.Score1 = lastReport.before.Score1
           /\ now.Score2 = lastReport.before.Score2
           /\ now.WinnerID = lastReport.before.WinnerID
           /\ now.Status = lastReport.before.Status
====
